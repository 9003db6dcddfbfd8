-------------------------- MODULE BlockingApi_proofs --------------------------
(***************************************************************************)
(* TLAPS proofs about the blocking data API: for every set of snoop        *)
(* buffers, buffer contents and number of runs, no wake-up on the shared   *)
(* condition variable is lost, the asserts of next_event() hold, the event *)
(* in the context is stable while the caller uses it, and events are       *)
(* delivered once, in order and before the final None.                     *)
(***************************************************************************)
EXTENDS BlockingApi, FiniteSetTheorems, SequenceTheorems, TLAPS

\* The part of the type invariant the handshake depends on.
HandshakeType ==
    /\ ready \in BOOLEAN /\ processed \in BOOLEAN
    /\ waiting \subseteq {"parser", "monitor", "user"}

\* Why NoLostWakeup is inductive: the two flags are complementary, a sleeper is
\* at its wait, and the monitor only publishes after it joined the parser.
HandshakeInv ==
    /\ HandshakeType
    /\ ready = ~processed
    /\ userPc \in {"copy", "use"} => ready
    /\ "parser" \in waiting => parserPc = "callback"
    /\ "monitor" \in waiting => monitorPc = "publish"
    /\ monitorPc \in {"publish", "notify", "done"} => parserPc = "done"
    /\ NoLostWakeup

USE DEF HandshakeInv, HandshakeType, NoLostWakeup

\* Initially nobody sleeps and the context is marked processed.
LEMMA HandshakeInit == Init => HandshakeInv
BY DEF Init

\* The steps of the worker do not touch the handshake.
LEMMA WorkerKeepsHandshake == HandshakeInv /\ Worker => HandshakeInv'
<1>1. Worker => UNCHANGED <<ready, processed, waiting, parserPc, monitorPc, userPc>>
    BY DEF Worker, WorkerFill, WorkerDone, parserVars, ctxVars, userVars
<1> QED BY <1>1

\* The parser thread: it sleeps only on an unprocessed event, and its
\* notify_one() finds at most the user asleep.
LEMMA ParserKeepsHandshake == HandshakeInv /\ Parser => HandshakeInv'
<1> SUFFICES ASSUME HandshakeInv, Parser PROVE HandshakeInv'
    OBVIOUS
<1>1. CASE ParserCheckQuit
    BY <1>1 DEF ParserCheckQuit, ctxVars, userVars
<1>2. CASE ParserDequeue
    BY <1>2 DEF ParserDequeue, ctxVars, userVars
<1>3. CASE ParserParseEvent
    BY <1>3 DEF ParserParseEvent, ctxVars, userVars
<1>4. CASE ParserReturnBuffer
    BY <1>4 DEF ParserReturnBuffer, ctxVars, userVars
<1>5. CASE ParserCallback
  <2>0. UNCHANGED <<monitorPc, userPc>> /\ parserPc = "callback" /\ "parser" \notin waiting
      BY <1>5 DEF ParserCallback, Awake, userVars
  <2>1. CASE processed
    <3>1. ready' = TRUE /\ processed' = FALSE /\ parserPc' = "notify" /\ waiting' = waiting
        BY <1>5, <2>1, Zenon DEF ParserCallback, Publish
    <3> QED BY <2>0, <2>1, <3>1
  <2>2. CASE ~processed
    <3>1. UNCHANGED <<ready, processed, parserPc>> /\ waiting' = waiting \cup {"parser"}
        BY <1>5, <2>2, Zenon DEF ParserCallback, Wait, ctxVars
    <3>2. "monitor" \notin waiting
        BY <2>0
    <3> QED BY <2>0, <2>2, <3>1, <3>2
  <2> QED BY <2>1, <2>2
<1>6. CASE ParserNotify
    BY <1>6 DEF ParserNotify, NotifyOne, ctxVars, userVars
<1> QED BY <1>1, <1>2, <1>3, <1>4, <1>5, <1>6 DEF Parser

\* The monitor thread publishes only when the parser is gone.
LEMMA MonitorKeepsHandshake == HandshakeInv /\ Monitor => HandshakeInv'
<1> SUFFICES ASSUME HandshakeInv, Monitor PROVE HandshakeInv'
    OBVIOUS
<1>1. CASE MonitorWaitIdle
    BY <1>1 DEF MonitorWaitIdle, MonitorMove, parserVars, ctxVars, userVars
<1>2. CASE MonitorDrain
    BY <1>2 DEF MonitorDrain, MonitorMove, parserVars, ctxVars, userVars
<1>3. CASE MonitorQuit
    BY <1>3 DEF MonitorQuit, MonitorMove, parserVars, ctxVars, userVars
<1>4. CASE MonitorJoin
    BY <1>4 DEF MonitorJoin, MonitorMove, parserVars, ctxVars, userVars
<1>5. CASE MonitorPublish
  <2>0. UNCHANGED <<parserPc, userPc>> /\ monitorPc = "publish" /\ "monitor" \notin waiting
      BY <1>5 DEF MonitorPublish, Awake, parserVars, userVars
  <2>1. CASE processed
    <3>1. ready' = TRUE /\ processed' = FALSE /\ monitorPc' = "notify" /\ waiting' = waiting
        BY <1>5, <2>1, Zenon DEF MonitorPublish, Publish
    <3> QED BY <2>0, <2>1, <3>1
  <2>2. CASE ~processed
    <3>1. UNCHANGED <<ready, processed, monitorPc>> /\ waiting' = waiting \cup {"monitor"}
        BY <1>5, <2>2, Zenon DEF MonitorPublish, Wait, ctxVars
    <3>2. "parser" \notin waiting
        BY <2>0
    <3> QED BY <2>0, <2>2, <3>1, <3>2
  <2> QED BY <2>1, <2>2
<1>6. CASE MonitorNotify
    BY <1>6 DEF MonitorNotify, MonitorMove, NotifyOne, parserVars, ctxVars, userVars
<1> QED BY <1>1, <1>2, <1>3, <1>4, <1>5, <1>6 DEF Monitor

\* The user thread: next_event() and the calls around it.
LEMMA UserKeepsHandshake == HandshakeInv /\ (User \/ UserAbandon) => HandshakeInv'
<1> SUFFICES ASSUME HandshakeInv, User \/ UserAbandon PROVE HandshakeInv'
    OBVIOUS
<1>1. CASE UserStart
    BY <1>1 DEF UserStart, UserMove, parserVars, ctxVars
<1>2. CASE UserStartMonitor
    BY <1>2 DEF UserStartMonitor, UserMove, parserVars, ctxVars
<1>3. CASE NextEventRelease
    BY <1>3 DEF NextEventRelease, UserMove, parserVars
<1>4. CASE NextEventNotify
    BY <1>4 DEF NextEventNotify, UserMove, NotifyOne, parserVars, ctxVars
<1>5. CASE NextEventWait
    BY <1>5 DEF NextEventWait, Wait, Awake, parserVars, ctxVars
<1>6. CASE NextEventReturn
    BY <1>6 DEF NextEventReturn, UserMove, parserVars, ctxVars
<1>7. CASE UserDone
    BY <1>7 DEF UserDone, parserVars, ctxVars
<1>8. CASE UserDestroy
    BY <1>8 DEF UserDestroy, UserMove, parserVars, ctxVars
<1>9. CASE UserAbandon
    BY <1>9 DEF UserAbandon, UserMove, parserVars, ctxVars
<1> QED BY <1>1, <1>2, <1>3, <1>4, <1>5, <1>6, <1>7, <1>8, <1>9 DEF User

LEMMA HandshakeStep == HandshakeInv /\ [Next]_vars => HandshakeInv'
<1>1. CASE UNCHANGED vars
    BY <1>1 DEF vars, parserVars, ctxVars, userVars
<1> QED BY <1>1, WorkerKeepsHandshake, ParserKeepsHandshake,
           MonitorKeepsHandshake, UserKeepsHandshake DEF Next

\* The inductive invariant holds in every reachable state.
THEOREM HandshakeInvariant == Spec => []HandshakeInv
BY HandshakeInit, HandshakeStep, PTL DEF Spec

\* No wake-up is lost on the one condition variable shared by the parser
\* callbacks, the monitor and next_event(), all of which use notify_one().
THEOREM WakeupTheorem == Spec => []NoLostWakeup
<1>1. HandshakeInv => NoLostWakeup
    OBVIOUS
<1> QED BY <1>1, HandshakeInvariant, PTL

\* The asserts at the end of next_event() cannot fail.
THEOREM AssertTheorem == Spec => []NextEventAssert
<1>1. HandshakeInv => NextEventAssert
    BY DEF NextEventAssert
<1> QED BY <1>1, HandshakeInvariant, PTL

\* Nobody replaces the event in the context between the moment next_event() is
\* released and the caller's next call, although the copy is made unlocked.
THEOREM EventStableTheorem == Spec => EventStable
<1>1. HandshakeInv /\ [Next]_vars => [event' # event => userPc \notin {"copy", "use"}]_vars
  <2> SUFFICES ASSUME HandshakeInv, [Next]_vars, event' # event
               PROVE  userPc \notin {"copy", "use"}
      OBVIOUS
  <2>1. CASE ParserCallback
      BY <2>1 DEF ParserCallback, ctxVars
  <2>2. CASE MonitorPublish
      BY <2>2 DEF MonitorPublish, ctxVars
  <2> QED
      BY <2>1, <2>2 DEF Next, Worker, Parser, Monitor, User, WorkerFill,
         WorkerDone, ParserCheckQuit, ParserDequeue, ParserParseEvent,
         ParserReturnBuffer, ParserNotify, MonitorWaitIdle, MonitorDrain,
         MonitorQuit, MonitorJoin, MonitorNotify, UserStart, UserStartMonitor,
         NextEventRelease, NextEventNotify, NextEventWait, NextEventReturn,
         UserDone, UserDestroy, UserAbandon, ctxVars, vars
<1> QED BY <1>1, HandshakeInvariant, PTL DEF Spec, EventStable

HIDE DEF HandshakeInv, HandshakeType, NoLostWakeup

----------------------------------------------------------------------------
(* What next_event() delivers.  The events of a run are numbered in the    *)
(* order of production; the invariant follows that order from the filled   *)
(* queue through the buffer being parsed and the context to the caller.    *)

\* The id before the first event of the filled queue, and the last id of a buffer.
QueueFirst == IF filled = <<>> THEN produced ELSE content[filled[1]].first
LastId(b)  == content[b].first + Len(content[b].kinds)

\* The id of the event the parser published last.
Published ==
    IF cur = <<>> THEN QueueFirst
    ELSE IF parserPc = "notify" THEN content[cur[1]].first + pos
    ELSE content[cur[1]].first + pos - 1

\* The parser holds a buffer exactly while it parses one, and pos is an event
\* of that buffer or, between two events, the one after its last.
CurInv ==
    /\ cur = <<>> <=> parserPc \in {"loop", "dequeue", "done"}
    /\ cur # <<>> =>
         /\ Len(cur) = 1 /\ pos >= 1
         /\ pos <= Len(content[cur[1]].kinds) + 1
         /\ parserPc # "parse" => pos <= Len(content[cur[1]].kinds)

\* The buffers are queued in the order of their events.
ChainInv ==
    /\ \A i \in 1..(Len(filled) - 1) :
         content[filled[i + 1]].first = LastId(filled[i])
    /\ filled # <<>> => LastId(filled[Len(filled)]) = produced
    /\ cur # <<>> => LastId(cur[1]) = QueueFirst

\* Once the monitor has seen the worker idle and the queue empty, they stay so
\* until the next start(); a None event in the context is the monitor's.
MonitorInv ==
    /\ monitorPc \notin {"none", "waitIdle"} /\ userPc # "startMonitor" =>
         /\ workerState = "Idle"
         /\ monitorPc # "drain" => filled = <<>>
    /\ ready /\ event.id = 0 /\ userPc \in {"notify", "wait", "copy", "use"} =>
         monitorPc \in {"notify", "done"}

\* The event in the context: the one published last, or None before the first
\* event or after the end of the parser.
EventInv ==
    /\ event.id = 0 <=> event.type = "None"
    /\ event.id # 0 => event.id = Published
    /\ event.id = 0 =>
         /\ Published = 0 \/ parserPc = "done"
         /\ Published <= 1 \/ \E i \in 1..Len(delivered) : delivered[i] = Published
    /\ userPc = "use" => held = event

BeforeRelease == userPc \in {"start", "startMonitor", "release"}
InNextEvent   == userPc \in {"notify", "wait", "copy"}

\* Nothing is delivered yet: the parser is at most one event ahead of the
\* caller, plus the event the first next_event() drops.
FirstInv ==
    delivered = <<>> =>
        /\ userPc \notin {"use", "destroy", "destroyed"}
        /\ Published <= 2
        /\ processed \/ BeforeRelease => Published <= 1
        /\ processed /\ BeforeRelease => Published = 0

\* The event in the context is the one delivered last or, while the caller is in
\* next_event(), the one that follows it.
LastInv ==
    delivered # <<>> =>
        LET last == delivered[Len(delivered)]
        IN  /\ ~InNextEvent => ready
            /\ processed \/ ~InNextEvent => event.id = last
            /\ ready /\ InNextEvent => event.id \in {0, last + 1}
            /\ last = 0 => parserPc = "done" /\ event.id = 0

DeliveryInv ==
    /\ TypeOK /\ HandshakeInv /\ BuffersConserved /\ CurInv /\ ChainInv
    /\ MonitorInv /\ EventInv /\ FirstInv /\ LastInv /\ DeliveredInOrder

\* The first element of a sequence is removed.
LEMMA TailFacts ==
    ASSUME NEW S, NEW s \in Seq(S), s # <<>>
    PROVE  /\ Tail(s) \in Seq(S) /\ Len(Tail(s)) = Len(s) - 1 /\ Len(s) \in Nat \ {0}
           /\ Head(s) = s[1] /\ s[1] \in S
           /\ \A i \in 1..(Len(s) - 1) : Tail(s)[i] = s[i + 1]
OBVIOUS

\* An element is added at the end.
LEMMA AppendFacts ==
    ASSUME NEW S, NEW s \in Seq(S), NEW x \in S
    PROVE  /\ Append(s, x) \in Seq(S) /\ Len(Append(s, x)) = Len(s) + 1
           /\ Len(s) \in Nat
           /\ \A i \in 1..Len(s) : Append(s, x)[i] = s[i]
           /\ Append(s, x)[Len(s) + 1] = x
OBVIOUS

\* What is true of the buffers of a queue stays true when its head leaves it.
LEMMA DistinctTail ==
    ASSUME NEW S, NEW s \in Seq(S), s # <<>>, Distinct(s)
    PROVE  Distinct(Tail(s)) /\ \A i \in 1..Len(Tail(s)) : Tail(s)[i] # Head(s)
<1>1. \A i \in 1..Len(Tail(s)) : i + 1 \in 1..Len(s) /\ i + 1 # 1 /\ Tail(s)[i] = s[i + 1]
  BY TailFacts
<1>2. 1 \in 1..Len(s)
  BY TailFacts
<1> QED BY <1>1, <1>2, TailFacts DEF Distinct

LEMMA ApartTail ==
    ASSUME NEW S, NEW s \in Seq(S), s # <<>>, NEW t \in Seq(S), Apart(s, t)
    PROVE  Apart(Tail(s), t) /\ \A j \in 1..Len(t) : t[j] # Head(s)
<1>1. \A i \in 1..Len(Tail(s)) : i + 1 \in 1..Len(s) /\ Tail(s)[i] = s[i + 1]
  BY TailFacts
<1>2. 1 \in 1..Len(s)
  BY TailFacts
<1> QED BY <1>1, <1>2, TailFacts DEF Apart

LEMMA DistinctAppend ==
    ASSUME NEW S, NEW s \in Seq(S), NEW x \in S, Distinct(s),
           \A i \in 1..Len(s) : s[i] # x
    PROVE  Distinct(Append(s, x))
<1>1. \A i \in 1..Len(Append(s, x)) : i \in 1..Len(s) \/ i = Len(s) + 1
  BY AppendFacts
<1> QED BY <1>1, AppendFacts DEF Distinct

LEMMA ApartAppend ==
    ASSUME NEW S, NEW s \in Seq(S), NEW x \in S, NEW t \in Seq(S), Apart(s, t),
           \A i \in 1..Len(t) : t[i] # x
    PROVE  Apart(Append(s, x), t)
<1>1. \A i \in 1..Len(Append(s, x)) : i \in 1..Len(s) \/ i = Len(s) + 1
  BY AppendFacts
<1> QED BY <1>1, AppendFacts DEF Apart

LEMMA ApartSymmetric == ASSUME NEW s, NEW t, Apart(s, t) PROVE Apart(t, s)
BY DEF Apart

----------------------------------------------------------------------------
(* Type correctness.                                                       *)

LEMMA InitTypes == Init => TypeOK
<1> SUFFICES ASSUME Init PROVE TypeOK
  OBVIOUS
<1>1. Cardinality(Buffers) \in Nat
  BY BuffersAssumption, FS_CardinalityType
<1>2. empty \in Seq(Buffers)
  BY <1>1 DEF Init
<1>3. content \in [Buffers -> [first : Nat, kinds : Seq({"Readout", "System"})]]
  BY DEF Init
<1>4. DataTypes
  BY <1>2, <1>3 DEF Init, DataTypes
<1>5. NoneEvent \in EventContainer
  BY DEF NoneEvent, EventContainer, PublishedTypes, Areas
<1> QED BY <1>4, <1>5 DEF Init, TypeOK, EventTypes, ControlTypes

dataVars == <<filled, empty, cur, content, memory, produced, pos, runs, delivered>>

\* The buffer being parsed and the event in it.
LEMMA CurEventType ==
    ASSUME DataTypes, CurInv,
           \/ parserPc \in {"callback", "notify"}
           \/ parserPc = "parse" /\ pos <= Len(content[CurBuffer].kinds)
    PROVE  /\ CurBuffer \in Buffers
           /\ CurEvent.type \in {"Readout", "System"}
           /\ CurEvent.id \in Nat \ {0}
<1>1. cur # <<>> /\ Len(cur) = 1
  BY DEF CurInv
<1>2. cur[1] \in Buffers
  BY <1>1 DEF DataTypes
<1>3. /\ content[cur[1]].kinds \in Seq({"Readout", "System"})
      /\ content[cur[1]].first \in Nat
  BY <1>2 DEF DataTypes
<1>4. pos \in Nat /\ Len(content[cur[1]].kinds) \in Nat
  BY <1>3 DEF DataTypes
<1>5. pos >= 1 /\ pos <= Len(content[cur[1]].kinds)
  BY <1>1, <1>4 DEF CurInv, CurBuffer
<1> QED BY <1>2, <1>3, <1>4, <1>5 DEF CurEvent, CurBuffer

\* The contents of a buffer are a sequence of event kinds.
LEMMA ContentsType == Contents \subseteq Seq({"Readout", "System"})
<1> SUFFICES ASSUME NEW n \in 0 .. MaxPerBuffer, NEW s \in [1 .. n -> {"Readout", "System"}]
             PROVE  s \in Seq({"Readout", "System"})
  BY DEF Contents
<1>1. n \in Nat
  BY MaxAssumption
<1> QED BY <1>1

\* The worker's step: which buffer it fills, with what.
LEMMA FillFacts ==
    ASSUME DataTypes, WorkerFill
    PROVE  \E kinds \in Seq({"Readout", "System"}) :
             /\ empty # <<>> /\ Head(empty) \in Buffers
             /\ empty' = Tail(empty) /\ filled' = Append(filled, Head(empty))
             /\ content' = [content EXCEPT ![Head(empty)] =
                              [first |-> produced, kinds |-> kinds]]
             /\ memory' = [memory EXCEPT ![Head(empty)] = @ + 1]
             /\ produced' = produced + Len(kinds)
<1>1. empty # <<>> /\ empty \in Seq(Buffers)
  BY DEF WorkerFill, DataTypes
<1>2. Head(empty) \in Buffers
  BY <1>1, TailFacts
<1> QED BY <1>1, <1>2, ContentsType DEF WorkerFill

LEMMA DataTypesKept ==
    ASSUME DataTypes, EventTypes, CurInv, [Next]_vars PROVE DataTypes'
<1>0. ASSUME UNCHANGED dataVars PROVE DataTypes'
  BY <1>0 DEF dataVars, DataTypes, Areas
<1>1. CASE WorkerFill
  <2>1. PICK kinds \in Seq({"Readout", "System"}) :
             /\ empty # <<>> /\ Head(empty) \in Buffers
             /\ empty' = Tail(empty) /\ filled' = Append(filled, Head(empty))
             /\ content' = [content EXCEPT ![Head(empty)] =
                              [first |-> produced, kinds |-> kinds]]
             /\ memory' = [memory EXCEPT ![Head(empty)] = @ + 1]
             /\ produced' = produced + Len(kinds)
    BY <1>1, FillFacts
  <2>2. empty' \in Seq(Buffers) /\ filled' \in Seq(Buffers)
    BY <2>1, TailFacts, AppendFacts DEF DataTypes
  <2>3. content' \in [Buffers -> [first : Nat, kinds : Seq({"Readout", "System"})]]
    BY <2>1 DEF DataTypes
  <2>4. memory' \in [Areas -> Nat]
    <3>1. Head(empty) \in Areas /\ memory \in [Areas -> Nat]
      BY <2>1 DEF DataTypes, Areas
    <3> QED BY <2>1, <3>1
  <2>5. produced' \in Nat
    BY <2>1, SMTT(30) DEF DataTypes
  <2>6. UNCHANGED <<cur, pos, delivered, runs>>
    BY <1>1 DEF WorkerFill, userVars
  <2> QED BY <2>2, <2>3, <2>4, <2>5, <2>6 DEF DataTypes, Areas
<1>2. CASE ParserDequeue
  <2>0. UNCHANGED <<content, produced, memory, delivered, runs>>
    BY <1>2 DEF ParserDequeue, workerVars, userVars
  <2>1. CASE filled = <<>>
    <3>1. UNCHANGED dataVars
      BY <1>2, <2>0, <2>1 DEF ParserDequeue, dataVars
    <3> QED BY <3>1, <1>0
  <2>2. CASE filled # <<>>
    <3>1. Head(filled) \in Buffers /\ Tail(filled) \in Seq(Buffers)
      BY <2>2, TailFacts DEF DataTypes
    <3>2. Append(empty, Head(filled)) \in Seq(Buffers) /\ <<Head(filled)>> \in Seq(Buffers)
      BY <3>1, AppendFacts DEF DataTypes
    <3>3. /\ filled' = Tail(filled)
          /\ empty' = empty \/ empty' = Append(empty, Head(filled))
          /\ cur' = cur \/ cur' = <<Head(filled)>>
          /\ pos' = pos \/ pos' = 1
      BY <1>2, <2>2, Zenon DEF ParserDequeue
    <3>4. filled' \in Seq(Buffers) /\ empty' \in Seq(Buffers)
      BY <3>1, <3>2, <3>3 DEF DataTypes
    <3>5. cur' \in Seq(Buffers)
      BY <3>2, <3>3 DEF DataTypes
    <3>6. pos' \in Nat
      BY <3>3 DEF DataTypes
    <3> QED BY <2>0, <3>4, <3>5, <3>6 DEF DataTypes, Areas
  <2> QED BY <2>1, <2>2
<1>3. CASE ParserParseEvent
  <2>1. UNCHANGED <<filled, empty, cur, content, produced, pos, runs, delivered>>
    BY <1>3 DEF ParserParseEvent, workerVars, userVars
  <2>2. memory' = memory \/ memory' = [memory EXCEPT !["work"] = @ + 1]
    BY <1>3, Zenon DEF ParserParseEvent
  <2>3. memory \in [Areas -> Nat] /\ "work" \in Areas
    BY DEF DataTypes, Areas
  <2>4. memory' \in [Areas -> Nat]
    BY <2>2, <2>3
  <2> QED BY <2>1, <2>4 DEF DataTypes, Areas
<1>4. CASE ParserReturnBuffer
  <2>1. UNCHANGED <<filled, content, memory, produced, pos, runs, delivered>>
    BY <1>4 DEF ParserReturnBuffer, workerVars, userVars
  <2>2. CurBuffer \in Buffers
    <3>1. cur # <<>> /\ Len(cur) = 1
      BY <1>4 DEF CurInv, ParserReturnBuffer
    <3> QED BY <3>1 DEF DataTypes, CurBuffer
  <2>3. Append(empty, CurBuffer) \in Seq(Buffers) /\ <<>> \in Seq(Buffers)
    BY <2>2, AppendFacts DEF DataTypes
  <2>4. empty' \in Seq(Buffers) /\ cur' \in Seq(Buffers)
    BY <1>4, <2>3 DEF ParserReturnBuffer
  <2> QED BY <2>1, <2>4 DEF DataTypes, Areas
<1>5. CASE ParserNotify
  <2>1. UNCHANGED <<filled, empty, cur, content, memory, produced, runs, delivered>> /\ pos' = pos + 1
    BY <1>5 DEF ParserNotify, workerVars, userVars
  <2> QED BY <2>1 DEF DataTypes, Areas
<1>6. CASE UserStart
  <2>1. UNCHANGED <<filled, empty, cur, content, memory, produced, pos, delivered>> /\ runs' = runs + 1
    BY <1>6 DEF UserStart, parserVars
  <2> QED BY <2>1 DEF DataTypes, Areas
<1>7. CASE NextEventReturn
  <2>1. UNCHANGED <<filled, empty, cur, content, memory, produced, pos, runs>>
    BY <1>7 DEF NextEventReturn, workerVars, parserVars
  <2>2. event.id \in Nat
    BY DEF EventTypes, EventContainer
  <2>3. delivered' \in Seq(Nat)
    BY <1>7, <2>2, AppendFacts DEF NextEventReturn, DataTypes
  <2> QED BY <2>1, <2>3 DEF DataTypes, Areas
<1>8. CASE UNCHANGED vars
  BY <1>0, <1>8 DEF vars, dataVars, workerVars, parserVars, userVars
<1>9. ASSUME Next, ~WorkerFill, ~ParserDequeue, ~ParserParseEvent, ~ParserReturnBuffer,
             ~ParserNotify, ~UserStart, ~NextEventReturn
      PROVE  UNCHANGED dataVars
  BY <1>9 DEF Next, Worker, Parser, Monitor, User, WorkerDone, ParserCheckQuit,
     ParserCallback, MonitorWaitIdle, MonitorDrain, MonitorQuit, MonitorJoin,
     MonitorPublish, MonitorNotify, UserStartMonitor, NextEventRelease, NextEventNotify,
     NextEventWait, UserDone, UserDestroy, UserAbandon, dataVars, workerVars,
     parserVars, userVars
<1> QED BY <1>0, <1>1, <1>2, <1>3, <1>4, <1>5, <1>6, <1>7, <1>8, <1>9

\* What the parser's callback publishes.
LEMMA EventViewType ==
    ASSUME DataTypes, CurInv, parserPc = "callback"
    PROVE  /\ EventView \in EventContainer /\ EventView.type # "None"
           /\ EventView.id = content[cur[1]].first + pos /\ EventView.id # 0
<1>1. /\ CurBuffer \in Buffers /\ CurEvent.type \in {"Readout", "System"}
      /\ CurEvent.id \in Nat \ {0}
  BY CurEventType
<1>2. memory \in [Areas -> Nat] /\ CurBuffer \in Areas /\ "work" \in Areas
  BY <1>1 DEF DataTypes, Areas
<1>3. CurEvent.id = content[cur[1]].first + pos
  BY DEF CurEvent, CurBuffer
<1>4. EventView.type = CurEvent.type /\ EventView.id = CurEvent.id
  BY DEF EventView
<1>5. EventView \in EventContainer
  BY <1>1, <1>2 DEF EventView, EventContainer, PublishedTypes
<1> QED BY <1>1, <1>3, <1>4, <1>5

\* A callback step, either of the two ways it goes.
LEMMA CallbackFacts ==
    ASSUME ParserCallback, processed \in BOOLEAN
    PROVE  /\ parserPc = "callback"
           /\ UNCHANGED <<workerState, content, produced, filled, empty, cur, pos, memory,
                          parserQuit, monitorPc, userPc, held, delivered, runs>>
           /\ \/ /\ processed /\ event' = EventView /\ ready' = TRUE /\ processed' = FALSE
                 /\ parserPc' = "notify" /\ waiting' = waiting
              \/ /\ ~processed /\ UNCHANGED <<event, ready, processed, parserPc>>
                 /\ waiting' = waiting \cup {"parser"}
<1>1. /\ parserPc = "callback"
      /\ UNCHANGED <<workerState, content, produced, filled, empty, cur, pos, memory,
                     parserQuit, monitorPc, userPc, held, delivered, runs>>
  BY DEF ParserCallback, workerVars, userVars
<1>2. CASE processed
  <2>1. /\ event' = EventView /\ ready' = TRUE /\ processed' = FALSE
        /\ parserPc' = "notify" /\ waiting' = waiting
    BY <1>2, Zenon DEF ParserCallback, Publish
  <2> QED BY <1>1, <1>2, <2>1, Zenon
<1>3. CASE ~processed
  <2>1. UNCHANGED <<event, ready, processed, parserPc>> /\ waiting' = waiting \cup {"parser"}
    BY <1>3, Zenon DEF ParserCallback, Wait, ctxVars
  <2> QED BY <1>1, <1>3, <2>1, Zenon
<1> QED BY <1>2, <1>3

LEMMA PublishFacts ==
    ASSUME MonitorPublish, processed \in BOOLEAN
    PROVE  /\ monitorPc = "publish"
           /\ UNCHANGED <<workerState, content, produced, filled, empty, cur, pos, memory,
                          parserQuit, parserPc, userPc, held, delivered, runs>>
           /\ \/ /\ processed /\ event' = NoneEvent /\ ready' = TRUE /\ processed' = FALSE
                 /\ monitorPc' = "notify" /\ waiting' = waiting
              \/ /\ ~processed /\ UNCHANGED <<event, ready, processed, monitorPc>>
                 /\ waiting' = waiting \cup {"monitor"}
<1>1. /\ monitorPc = "publish"
      /\ UNCHANGED <<workerState, content, produced, filled, empty, cur, pos, memory,
                     parserQuit, parserPc, userPc, held, delivered, runs>>
  BY DEF MonitorPublish, workerVars, parserVars, userVars
<1>2. CASE processed
  <2>1. /\ event' = NoneEvent /\ ready' = TRUE /\ processed' = FALSE
        /\ monitorPc' = "notify" /\ waiting' = waiting
    BY <1>2, Zenon DEF MonitorPublish, Publish
  <2> QED BY <1>1, <1>2, <2>1, Zenon
<1>3. CASE ~processed
  <2>1. UNCHANGED <<event, ready, processed, monitorPc>> /\ waiting' = waiting \cup {"monitor"}
    BY <1>3, Zenon DEF MonitorPublish, Wait, ctxVars
  <2> QED BY <1>1, <1>3, <2>1, Zenon
<1> QED BY <1>2, <1>3

\* The context and the caller's copy hold events.
LEMMA EventTypesKept ==
    ASSUME DataTypes, EventTypes, ControlTypes, CurInv, [Next]_vars PROVE EventTypes'
<1>0. ASSUME event' \in EventContainer, held' \in EventContainer PROVE EventTypes'
  BY <1>0 DEF EventTypes, EventContainer, Areas, PublishedTypes
<1>1. event \in EventContainer /\ held \in EventContainer /\ processed \in BOOLEAN
  BY DEF EventTypes, ControlTypes
<1>2. CASE ParserCallback
  <2>1. EventView \in EventContainer
    BY <1>2, EventViewType DEF ParserCallback
  <2>2. (event' = EventView \/ event' = event) /\ held' = held
    BY <1>1, <1>2, CallbackFacts
  <2> QED BY <1>0, <1>1, <2>1, <2>2
<1>3. CASE MonitorPublish
  <2>1. NoneEvent \in EventContainer
    BY DEF NoneEvent, EventContainer, PublishedTypes, Areas
  <2>2. (event' = NoneEvent \/ event' = event) /\ held' = held
    BY <1>1, <1>3, PublishFacts
  <2> QED BY <1>0, <1>1, <2>1, <2>2
<1>4. CASE NextEventReturn
  <2>1. event' = event /\ held' = event
    BY <1>4 DEF NextEventReturn, ctxVars
  <2> QED BY <1>0, <1>1, <2>1
<1>5. ASSUME [Next]_vars, ~ParserCallback, ~MonitorPublish, ~NextEventReturn
      PROVE  event' = event /\ held' = held
  BY <1>5 DEF Next, Worker, Parser, Monitor, User, WorkerFill, WorkerDone, ParserCheckQuit,
     ParserDequeue, ParserParseEvent, ParserReturnBuffer, ParserNotify,
     MonitorWaitIdle, MonitorDrain, MonitorQuit, MonitorJoin, MonitorNotify, UserStart,
     UserStartMonitor, NextEventRelease, NextEventNotify,
     NextEventWait, UserDone, UserDestroy, UserAbandon, ctxVars, userVars, vars
<1> QED BY <1>0, <1>1, <1>2, <1>3, <1>4, <1>5

\* The program counters and flags.
LEMMA ControlTypesKept == ASSUME ControlTypes, [Next]_vars PROVE ControlTypes'
<1>1. CASE Worker
  <2>1. /\ workerState' \in {"Idle", workerState}
        /\ UNCHANGED <<parserPc, parserQuit, ready, processed, waiting, monitorPc, userPc>>
    BY <1>1 DEF Worker, WorkerFill, WorkerDone, parserVars, ctxVars, userVars
  <2> QED BY <2>1 DEF ControlTypes
<1>2. CASE ParserCheckQuit \/ ParserDequeue \/ ParserParseEvent \/ ParserReturnBuffer
  <2>1. /\ parserPc' \in {"loop", "dequeue", "parse", "callback", "done"}
        /\ UNCHANGED <<workerState, parserQuit, ready, processed, waiting, monitorPc, userPc>>
    BY <1>2 DEF ParserCheckQuit, ParserDequeue, ParserParseEvent, ParserReturnBuffer,
       workerVars, ctxVars, userVars
  <2> QED BY <2>1 DEF ControlTypes
<1>3. CASE ParserCallback
  <2>1. processed \in BOOLEAN
    BY DEF ControlTypes
  <2>2. /\ parserPc' \in {"notify", "callback"} /\ ready' \in {TRUE, ready}
        /\ processed' \in {FALSE, processed} /\ waiting' \subseteq waiting \cup {"parser"}
        /\ UNCHANGED <<workerState, parserQuit, monitorPc, userPc>>
    BY <1>3, <2>1, CallbackFacts
  <2> QED BY <2>2, ZenonT(30) DEF ControlTypes
<1>4. CASE MonitorPublish
  <2>1. processed \in BOOLEAN
    BY DEF ControlTypes
  <2>2. /\ monitorPc' \in {"notify", "publish"} /\ ready' \in {TRUE, ready}
        /\ processed' \in {FALSE, processed} /\ waiting' \subseteq waiting \cup {"monitor"}
        /\ UNCHANGED <<workerState, parserQuit, parserPc, userPc>>
    BY <1>4, <2>1, PublishFacts
  <2> QED BY <2>2, ZenonT(30) DEF ControlTypes
<1>5. CASE ParserNotify \/ MonitorNotify \/ NextEventNotify
  <2>1. waiting' \subseteq waiting
    BY <1>5 DEF ParserNotify, MonitorNotify, NextEventNotify, NotifyOne
  <2> QED BY <1>5, <2>1 DEF ParserNotify, MonitorNotify, NextEventNotify, MonitorMove,
             UserMove, ControlTypes, workerVars, parserVars, ctxVars, userVars
<1>6. CASE MonitorWaitIdle \/ MonitorDrain \/ MonitorQuit \/ MonitorJoin
  BY <1>6, ZenonT(30) DEF MonitorWaitIdle, MonitorDrain, MonitorQuit, MonitorJoin, MonitorMove,
     ControlTypes, workerVars, parserVars, ctxVars, userVars
<1>7. CASE UserStart \/ UserStartMonitor \/ NextEventRelease
  BY <1>7, ZenonT(30) DEF UserStart, UserStartMonitor, NextEventRelease, UserMove,
     ControlTypes, workerVars, parserVars, ctxVars
<1>8. CASE NextEventWait
  <2>1. waiting' \subseteq waiting \cup {"user"} /\ userPc' \in {"copy", "wait"}
    BY <1>8 DEF NextEventWait, Wait
  <2> QED BY <1>8, <2>1 DEF NextEventWait, ControlTypes, workerVars, parserVars, ctxVars
<1>9. CASE NextEventReturn \/ UserDone \/ UserDestroy \/ UserAbandon
  <2>1. /\ userPc' \in {"use", "release", "start", "destroy", "destroyed"}
        /\ UNCHANGED <<workerState, parserPc, parserQuit, ready, processed, waiting, monitorPc>>
    BY <1>9 DEF NextEventReturn, UserDone, UserDestroy, UserAbandon, UserMove,
       workerVars, parserVars, ctxVars
  <2> QED BY <2>1 DEF ControlTypes
<1>10. CASE UNCHANGED vars
  BY <1>10 DEF vars, ControlTypes, workerVars, parserVars, ctxVars, userVars
<1> QED BY <1>1, <1>2, <1>3, <1>4, <1>5, <1>6, <1>7, <1>8, <1>9, <1>10
           DEF Next, Parser, Monitor, User

\* A buffer is in one place initially: in the queue of empty ones.
LEMMA InitBuffers == Init => BuffersConserved
<1> SUFFICES ASSUME Init PROVE BuffersConserved
  OBVIOUS
<1>1. Cardinality(Buffers) \in Nat
  BY BuffersAssumption, FS_CardinalityType
<1>2. Len(empty) = Cardinality(Buffers) /\ DOMAIN empty = 1..Len(empty)
  BY <1>1 DEF Init
<1>3. Distinct(empty)
  BY <1>2 DEF Init, Distinct
<1>4. filled = <<>> /\ cur = <<>>
  BY DEF Init
<1>5. Distinct(<<>>) /\ Apart(<<>>, empty) /\ Apart(<<>>, <<>>) /\ Apart(empty, <<>>)
  BY DEF Distinct, Apart
<1> QED BY <1>1, <1>2, <1>3, <1>4, <1>5 DEF BuffersConserved

\* The head of one queue moves to the end of another; r is the third place.
LEMMA MoveBuffer ==
    ASSUME NEW s \in Seq(Buffers), NEW t \in Seq(Buffers), NEW r \in Seq(Buffers),
           s # <<>>, Distinct(s), Distinct(t), Apart(s, t), Apart(s, r), Apart(t, r)
    PROVE  /\ Distinct(Tail(s)) /\ Distinct(Append(t, Head(s)))
           /\ Apart(Tail(s), Append(t, Head(s))) /\ Apart(Append(t, Head(s)), Tail(s))
           /\ Apart(Tail(s), r) /\ Apart(r, Tail(s))
           /\ Apart(Append(t, Head(s)), r) /\ Apart(r, Append(t, Head(s)))
           /\ Len(Tail(s)) + Len(Append(t, Head(s))) = Len(s) + Len(t)
<1>1. Head(s) \in Buffers /\ Tail(s) \in Seq(Buffers)
  BY TailFacts
<1>2. Append(t, Head(s)) \in Seq(Buffers)
  BY <1>1, AppendFacts
<1>3. /\ Distinct(Tail(s)) /\ \A i \in 1..Len(Tail(s)) : Tail(s)[i] # Head(s)
  BY DistinctTail
<1>4. /\ Apart(Tail(s), t) /\ (\A j \in 1..Len(t) : t[j] # Head(s))
      /\ Apart(Tail(s), r) /\ (\A j \in 1..Len(r) : r[j] # Head(s))
  BY ApartTail
<1>5. Distinct(Append(t, Head(s))) /\ Apart(Append(t, Head(s)), r)
  BY <1>1, <1>4, DistinctAppend, ApartAppend
<1>6. Apart(Append(t, Head(s)), Tail(s))
  BY <1>1, <1>3, <1>4, ApartAppend, ApartSymmetric
<1>7. Len(Tail(s)) + Len(Append(t, Head(s))) = Len(s) + Len(t)
  BY <1>1, TailFacts, AppendFacts
<1> QED BY <1>3, <1>4, <1>5, <1>6, <1>7, ApartSymmetric

LEMMA BuffersKept ==
    ASSUME DataTypes, CurInv, BuffersConserved, [Next]_vars PROVE BuffersConserved'
<1>0. ASSUME UNCHANGED <<filled, empty, cur>> PROVE BuffersConserved'
  BY <1>0 DEF BuffersConserved, Distinct, Apart
<1>1. /\ filled \in Seq(Buffers) /\ empty \in Seq(Buffers) /\ cur \in Seq(Buffers)
      /\ Len(filled) \in Nat /\ Len(empty) \in Nat /\ Len(cur) \in Nat
  BY DEF DataTypes
<1>2. /\ Distinct(filled) /\ Distinct(empty) /\ Distinct(cur)
      /\ Apart(filled, empty) /\ Apart(filled, cur) /\ Apart(empty, cur)
      /\ Apart(empty, filled) /\ Apart(cur, filled) /\ Apart(cur, empty)
  BY ApartSymmetric DEF BuffersConserved
<1>3. ASSUME Len(filled') + Len(empty') + Len(cur') = Len(filled) + Len(empty) + Len(cur),
             Distinct(filled'), Distinct(empty'), Distinct(cur'),
             Apart(filled', empty'), Apart(filled', cur'), Apart(empty', cur')
      PROVE  BuffersConserved'
  BY <1>3 DEF BuffersConserved, Distinct, Apart
<1>4. CASE WorkerFill
  <2>1. /\ empty # <<>> /\ empty' = Tail(empty) /\ filled' = Append(filled, Head(empty))
        /\ cur' = cur
    BY <1>4 DEF WorkerFill
  <2>2. /\ Distinct(filled') /\ Distinct(empty') /\ Apart(filled', empty')
        /\ Apart(filled', cur') /\ Apart(empty', cur')
        /\ Len(empty') + Len(filled') = Len(empty) + Len(filled)
    BY <1>1, <1>2, <2>1, MoveBuffer
  <2>3. Len(filled') \in Nat /\ Len(empty') \in Nat
    BY <1>1, <2>1
  <2> QED BY <1>1, <1>2, <1>3, <2>1, <2>2, <2>3
<1>5. CASE ParserDequeue
  <2>1. CASE filled = <<>>
    <3>1. UNCHANGED <<filled, empty, cur>>
      BY <1>5, <2>1 DEF ParserDequeue
    <3> QED BY <1>0, <3>1
  <2>2. CASE filled # <<>> /\ content[Head(filled)].kinds = <<>>
    <3>1. filled' = Tail(filled) /\ empty' = Append(empty, Head(filled)) /\ cur' = cur
      BY <1>5, <2>2 DEF ParserDequeue
    <3>2. /\ Distinct(filled') /\ Distinct(empty') /\ Apart(filled', empty')
          /\ Apart(filled', cur') /\ Apart(empty', cur')
          /\ Len(filled') + Len(empty') = Len(filled) + Len(empty)
      BY <1>1, <1>2, <2>2, <3>1, MoveBuffer
    <3>3. Len(filled') \in Nat /\ Len(empty') \in Nat
      BY <1>1, <2>2, <3>1
    <3> QED BY <1>1, <1>2, <1>3, <3>1, <3>2, <3>3
  <2>3. CASE filled # <<>> /\ content[Head(filled)].kinds # <<>>
    <3>1. filled' = Tail(filled) /\ cur' = <<Head(filled)>> /\ empty' = empty
      BY <1>5, <2>3 DEF ParserDequeue
    <3>2. cur = <<>> /\ Head(filled) \in Buffers
      BY <1>1, <1>5, <2>3 DEF ParserDequeue, CurInv
    <3>3. cur' = Append(cur, Head(filled))
      BY <3>1, <3>2
    <3>4. /\ Distinct(filled') /\ Distinct(cur') /\ Apart(filled', empty')
          /\ Apart(filled', cur') /\ Apart(empty', cur')
          /\ Len(filled') + Len(cur') = Len(filled) + Len(cur)
      BY <1>1, <1>2, <2>3, <3>1, <3>3, MoveBuffer
    <3>5. Len(filled') \in Nat /\ Len(cur') \in Nat
      BY <1>1, <2>3, <3>1, <3>2
    <3>6. Len(filled') + Len(empty') + Len(cur') = Len(filled) + Len(empty) + Len(cur)
      <4>1. /\ Len(filled) \in Nat /\ Len(empty) \in Nat /\ Len(cur) \in Nat
            /\ Len(filled') \in Nat /\ Len(cur') \in Nat /\ Len(empty') = Len(empty)
            /\ Len(filled') + Len(cur') = Len(filled) + Len(cur)
        BY <1>1, <3>1, <3>4, <3>5
      <4> QED BY <4>1
    <3> QED BY <1>2, <1>3, <3>1, <3>4, <3>6
  <2> QED BY <2>1, <2>2, <2>3
<1>6. CASE ParserReturnBuffer
  <2>1. cur # <<>> /\ Len(cur) = 1
    BY <1>6 DEF ParserReturnBuffer, CurInv
  <2>2. Head(cur) = CurBuffer /\ Tail(cur) = <<>>
    <3>1. Head(cur) = cur[1] /\ Tail(cur) \in Seq(Buffers) /\ Len(Tail(cur)) = 0
      BY <1>1, <2>1, TailFacts
    <3> QED BY <3>1, EmptySeq DEF CurBuffer
  <2>3. empty' = Append(empty, Head(cur)) /\ cur' = Tail(cur) /\ filled' = filled
    BY <1>6, <2>2 DEF ParserReturnBuffer
  <2>4. /\ Distinct(empty') /\ Distinct(cur') /\ Apart(filled', empty')
        /\ Apart(filled', cur') /\ Apart(empty', cur')
        /\ Len(cur') + Len(empty') = Len(cur) + Len(empty)
    BY <1>1, <1>2, <2>1, <2>3, MoveBuffer
  <2>5. Len(cur') \in Nat /\ Len(empty') \in Nat
    BY <1>1, <2>1, <2>2, <2>3
  <2>6. Len(filled') + Len(empty') + Len(cur') = Len(filled) + Len(empty) + Len(cur)
    <3>1. /\ Len(filled) \in Nat /\ Len(empty) \in Nat /\ Len(cur) \in Nat
          /\ Len(cur') \in Nat /\ Len(empty') \in Nat /\ Len(filled') = Len(filled)
          /\ Len(cur') + Len(empty') = Len(cur) + Len(empty)
      BY <1>1, <2>3, <2>4, <2>5
    <3> QED BY <3>1
  <2> QED BY <1>2, <1>3, <2>3, <2>4, <2>6
<1>7. ASSUME [Next]_vars, ~WorkerFill, ~ParserDequeue, ~ParserReturnBuffer
      PROVE  UNCHANGED <<filled, empty, cur>>
  BY <1>7 DEF Next, Worker, Parser, Monitor, User, WorkerDone, ParserCheckQuit,
     ParserParseEvent, ParserCallback, ParserNotify, MonitorWaitIdle, MonitorDrain,
     MonitorQuit, MonitorJoin, MonitorPublish, MonitorNotify, UserStart, UserStartMonitor,
     NextEventRelease, NextEventNotify, NextEventWait, NextEventReturn, UserDone,
     UserDestroy, UserAbandon, parserVars, vars
<1> QED BY <1>0, <1>4, <1>5, <1>6, <1>7

\* What changes the buffer being parsed, its contents and the parser's place.
LEMMA CurFrame ==
    ASSUME [Next]_vars, ~WorkerFill, ~Parser
    PROVE  UNCHANGED <<cur, pos, parserPc, content, filled, produced>>
BY DEF Next, Worker, Monitor, User, WorkerDone, MonitorWaitIdle, MonitorDrain,
   MonitorQuit, MonitorJoin, MonitorPublish, MonitorNotify, UserStart, UserStartMonitor,
   NextEventRelease, NextEventNotify, NextEventWait, NextEventReturn, UserDone,
   UserDestroy, UserAbandon, parserVars, workerVars, vars

\* The worker fills a buffer that is neither queued nor being parsed.
LEMMA FillKeepsOthers ==
    ASSUME DataTypes, BuffersConserved, CurInv, WorkerFill
    PROVE  /\ \A i \in 1..Len(filled) : content'[filled[i]] = content[filled[i]]
           /\ cur # <<>> => content'[cur[1]] = content[cur[1]]
<1>1. PICK kinds \in Seq({"Readout", "System"}) :
        /\ empty # <<>> /\ Head(empty) \in Buffers
        /\ content' = [content EXCEPT ![Head(empty)] = [first |-> produced, kinds |-> kinds]]
  BY FillFacts
<1>2. filled \in Seq(Buffers) /\ empty \in Seq(Buffers) /\ cur \in Seq(Buffers)
      /\ content \in [Buffers -> [first : Nat, kinds : Seq({"Readout", "System"})]]
  BY DEF DataTypes
<1>3. Head(empty) = empty[1] /\ 1 \in 1..Len(empty)
  BY <1>1, <1>2, TailFacts
<1>4. \A i \in 1..Len(filled) : filled[i] # Head(empty) /\ filled[i] \in Buffers
  BY <1>2, <1>3 DEF BuffersConserved, Apart
<1>5. cur # <<>> => cur[1] # Head(empty) /\ cur[1] \in Buffers
  BY <1>2, <1>3, SMTT(30) DEF BuffersConserved, Apart, CurInv
<1> QED BY <1>1, <1>2, <1>4, <1>5

\* The parser's buffer and its place in it.
LEMMA CurKept ==
    ASSUME DataTypes, ControlTypes, BuffersConserved, CurInv, [Next]_vars PROVE CurInv'
<1>1. CASE WorkerFill
  <2>1. UNCHANGED <<cur, pos, parserPc>>
    BY <1>1 DEF WorkerFill
  <2>2. cur # <<>> => content'[cur[1]] = content[cur[1]]
    BY <1>1, FillKeepsOthers
  <2> QED BY <2>1, <2>2 DEF CurInv
<1>2. CASE ParserCheckQuit
  BY <1>2 DEF ParserCheckQuit, CurInv, workerVars
<1>3. CASE ParserDequeue
  <2>1. CASE filled = <<>> \/ content[Head(filled)].kinds = <<>>
    <3>1. UNCHANGED <<cur, pos, content>> /\ parserPc = "dequeue" /\ parserPc' = "loop"
      BY <1>3, <2>1 DEF ParserDequeue, workerVars
    <3> QED BY <3>1 DEF CurInv
  <2>2. CASE filled # <<>> /\ content[Head(filled)].kinds # <<>>
    <3>1. /\ cur' = <<Head(filled)>> /\ pos' = 1 /\ content' = content /\ parserPc' = "parse"
      BY <1>3, <2>2 DEF ParserDequeue, workerVars
    <3>2. Head(filled) \in Buffers
      BY <2>2, TailFacts DEF DataTypes
    <3>3. content[Head(filled)].kinds \in Seq({"Readout", "System"})
      BY <3>2 DEF DataTypes
    <3>4. Len(content[Head(filled)].kinds) \in Nat
      BY <3>3
    <3>5. cur' # <<>> /\ Len(cur') = 1 /\ cur'[1] = Head(filled)
      BY <3>1
    <3> QED BY <3>1, <3>4, <3>5 DEF CurInv
  <2> QED BY <2>1, <2>2
<1>4. CASE ParserParseEvent
  <2>1. /\ UNCHANGED <<cur, pos, content>> /\ parserPc = "parse" /\ parserPc' = "callback"
        /\ pos <= Len(content[cur[1]].kinds)
    BY <1>4 DEF ParserParseEvent, workerVars, CurBuffer
  <2> QED BY <2>1 DEF CurInv
<1>5. CASE ParserReturnBuffer
  BY <1>5 DEF ParserReturnBuffer, CurInv
<1>6. CASE ParserCallback
  <2>1. UNCHANGED <<cur, pos, content>> /\ parserPc = "callback" /\ parserPc' \in {"callback", "notify"}
    BY <1>6, CallbackFacts DEF ControlTypes
  <2> QED BY <2>1 DEF CurInv
<1>7. CASE ParserNotify
  <2>1. UNCHANGED <<cur, content>> /\ parserPc = "notify" /\ parserPc' = "parse" /\ pos' = pos + 1
    BY <1>7 DEF ParserNotify, workerVars
  <2>2. cur # <<>> /\ Len(cur) = 1 /\ pos >= 1 /\ pos <= Len(content[cur[1]].kinds)
    BY <2>1 DEF CurInv
  <2>3. cur[1] \in Buffers /\ pos \in Nat
    BY <2>2 DEF DataTypes
  <2>4. content[cur[1]].kinds \in Seq({"Readout", "System"})
    BY <2>3 DEF DataTypes
  <2>5. Len(content[cur[1]].kinds) \in Nat
    BY <2>4
  <2>6. pos' >= 1 /\ pos' <= Len(content[cur[1]].kinds) + 1
    BY <2>1, <2>2, <2>3, <2>5
  <2> QED BY <2>1, <2>2, <2>6 DEF CurInv
<1>8. CASE ~WorkerFill /\ ~Parser
  BY <1>8, CurFrame DEF CurInv
<1> QED BY <1>1, <1>2, <1>3, <1>4, <1>5, <1>6, <1>7, <1>8 DEF Parser

\* The numbers of a buffer.
LEMMA BufferNumbers ==
    ASSUME DataTypes, NEW b \in Buffers
    PROVE  /\ content[b].first \in Nat /\ Len(content[b].kinds) \in Nat
           /\ LastId(b) = content[b].first + Len(content[b].kinds) /\ LastId(b) \in Nat
<1>1. content[b].first \in Nat /\ content[b].kinds \in Seq({"Readout", "System"})
  BY DEF DataTypes
<1> QED BY <1>1 DEF LastId

\* The filled queue when the worker adds to it.
LEMMA FillChain ==
    ASSUME DataTypes, BuffersConserved, CurInv, ChainInv, WorkerFill
    PROVE  ChainInv' /\ QueueFirst' = QueueFirst
<1>1. PICK kinds \in Seq({"Readout", "System"}) :
        /\ Head(empty) \in Buffers /\ filled' = Append(filled, Head(empty))
        /\ content' = [content EXCEPT ![Head(empty)] = [first |-> produced, kinds |-> kinds]]
        /\ produced' = produced + Len(kinds)
  BY FillFacts
<1> DEFINE b == Head(empty)
<1>2. content'[b].first = produced /\ content'[b].kinds = kinds
  BY <1>1 DEF DataTypes
<1>3. /\ \A i \in 1..Len(filled) : content'[filled[i]] = content[filled[i]]
      /\ cur # <<>> => content'[cur[1]] = content[cur[1]]
  BY FillKeepsOthers
<1>4. /\ filled \in Seq(Buffers) /\ Len(filled) \in Nat /\ Len(filled') = Len(filled) + 1
      /\ \A i \in 1..Len(filled) : filled'[i] = filled[i]
      /\ filled'[Len(filled) + 1] = b
  BY <1>1, AppendFacts DEF DataTypes
<1>5. cur' = cur
  BY DEF WorkerFill
<1> HIDE DEF b
<1>6. ASSUME NEW i \in 1..(Len(filled') - 1)
      PROVE  content'[filled'[i + 1]].first
               = content'[filled'[i]].first + Len(content'[filled'[i]].kinds)
  <2>1. i \in 1..Len(filled) /\ filled'[i] = filled[i] /\ content'[filled[i]] = content[filled[i]]
    BY <1>3, <1>4
  <2>2. CASE i = Len(filled)
    <3>1. filled # <<>> /\ LastId(filled[i]) = produced
      BY <1>4, <2>1, <2>2 DEF ChainInv
    <3> QED BY <1>2, <1>4, <2>1, <2>2, <3>1 DEF LastId
  <2>3. CASE i # Len(filled)
    <3>1. i \in 1..(Len(filled) - 1) /\ i + 1 \in 1..Len(filled)
      BY <1>4, <2>1, <2>3
    <3>2. content[filled[i + 1]].first = LastId(filled[i])
      BY <3>1 DEF ChainInv
    <3> QED BY <1>3, <1>4, <2>1, <3>1, <3>2 DEF LastId
  <2> QED BY <2>2, <2>3
<1>7. content'[filled'[Len(filled')]].first + Len(content'[filled'[Len(filled')]].kinds) = produced'
  BY <1>1, <1>2, <1>4
<1>8. QueueFirst' = QueueFirst
  <2>1. filled' # <<>>
    BY <1>4
  <2>2. QueueFirst' = content'[filled'[1]].first
    BY <2>1 DEF QueueFirst
  <2>3. CASE filled = <<>>
    BY <1>2, <1>4, <2>2, <2>3 DEF QueueFirst
  <2>4. CASE filled # <<>>
    <3>1. 1 \in 1..Len(filled)
      BY <1>4, <2>4
    <3> QED BY <1>3, <1>4, <2>2, <2>4, <3>1 DEF QueueFirst
  <2> QED BY <2>3, <2>4
<1>9. cur' # <<>> => content'[cur'[1]].first + Len(content'[cur'[1]].kinds) = QueueFirst'
  BY <1>3, <1>5, <1>8 DEF ChainInv, LastId
<1> QED BY <1>6, <1>7, <1>8, <1>9 DEF ChainInv, LastId

\* The filled queue when the parser takes its head.
LEMMA DequeueChain ==
    ASSUME DataTypes, ChainInv, filled # <<>>, filled' = Tail(filled),
           content' = content, produced' = produced
    PROVE  /\ \A i \in 1..(Len(filled') - 1) :
                content'[filled'[i + 1]].first
                  = content'[filled'[i]].first + Len(content'[filled'[i]].kinds)
           /\ filled' # <<>> =>
                content'[filled'[Len(filled')]].first
                  + Len(content'[filled'[Len(filled')]].kinds) = produced'
           /\ QueueFirst' = LastId(Head(filled))
<1>1. /\ Tail(filled) \in Seq(Buffers) /\ Len(Tail(filled)) = Len(filled) - 1
      /\ Len(filled) \in Nat \ {0} /\ Head(filled) = filled[1]
      /\ \A i \in 1..(Len(filled) - 1) : Tail(filled)[i] = filled[i + 1]
  BY TailFacts DEF DataTypes
<1>2. ASSUME NEW i \in 1..(Len(Tail(filled)) - 1)
      PROVE  content[Tail(filled)[i + 1]].first = LastId(Tail(filled)[i])
  <2>1. /\ i \in 1..(Len(filled) - 1) /\ i + 1 \in 1..(Len(filled) - 1)
    BY <1>1
  <2>2. Tail(filled)[i] = filled[i + 1] /\ Tail(filled)[i + 1] = filled[(i + 1) + 1]
    BY <1>1, <2>1
  <2> QED BY <2>1, <2>2 DEF ChainInv
<1>3. ASSUME Tail(filled) # <<>>
      PROVE  LastId(Tail(filled)[Len(Tail(filled))]) = produced
  <2>1. Len(Tail(filled)) \in 1..(Len(filled) - 1)
    BY <1>1, <1>3
  <2>2. Tail(filled)[Len(Tail(filled))] = filled[Len(filled)]
    BY <1>1, <2>1
  <2> QED BY <2>2 DEF ChainInv
<1>4. QueueFirst' = LastId(Head(filled))
  <2>1. CASE Tail(filled) = <<>>
    <3>1. Len(filled) = 1
      BY <1>1, <2>1
    <3>2. QueueFirst' = produced
      BY <2>1 DEF QueueFirst
    <3> QED BY <1>1, <3>1, <3>2 DEF ChainInv
  <2>2. CASE Tail(filled) # <<>>
    <3>1. 1 \in 1..(Len(filled) - 1)
      BY <1>1, <2>2
    <3>2. QueueFirst' = content[filled[1 + 1]].first
      BY <1>1, <2>2, <3>1 DEF QueueFirst
    <3> QED BY <1>1, <3>1, <3>2 DEF ChainInv
  <2> QED BY <2>1, <2>2
<1> QED BY <1>2, <1>3, <1>4 DEF LastId

\* A callback that publishes moves on to the next id; no other step of any thread
\* changes the id published last, and the buffers stay in order.
LEMMA ChainKept ==
    ASSUME DataTypes, ControlTypes, BuffersConserved, CurInv, ChainInv, [Next]_vars
    PROVE  /\ ChainInv'
           /\ Published' = IF ParserCallback /\ processed
                           THEN content[cur[1]].first + pos ELSE Published
<1>0. ASSUME UNCHANGED <<filled, content, produced, cur>>
      PROVE  ChainInv' /\ QueueFirst' = QueueFirst
  BY <1>0 DEF ChainInv, LastId, QueueFirst
<1>1. CASE WorkerFill
  <2>1. ChainInv' /\ QueueFirst' = QueueFirst
    BY <1>1, FillChain
  <2>2. UNCHANGED <<cur, pos, parserPc>>
    BY <1>1 DEF WorkerFill
  <2>3. cur # <<>> => content'[cur[1]] = content[cur[1]]
    BY <1>1, FillKeepsOthers
  <2>4. ~(ParserCallback /\ processed)
    BY <1>1, CallbackFacts DEF WorkerFill, ControlTypes
  <2> QED BY <2>1, <2>2, <2>3, <2>4 DEF Published
<1>2. CASE ParserCheckQuit
  <2>1. /\ UNCHANGED <<filled, content, produced, cur>> /\ parserPc = "loop"
        /\ parserPc' \in {"done", "dequeue"}
    BY <1>2 DEF ParserCheckQuit, workerVars
  <2>2. cur = <<>>
    BY <2>1 DEF CurInv
  <2>3. ~ParserCallback
    BY <2>1 DEF ParserCallback
  <2> QED BY <1>0, <2>1, <2>2, <2>3 DEF Published
<1>3. CASE ParserDequeue
  <2>0. /\ parserPc = "dequeue" /\ cur = <<>> /\ content' = content /\ produced' = produced
        /\ ~ParserCallback
    BY <1>3 DEF ParserDequeue, ParserCallback, CurInv, workerVars
  <2>1. CASE filled = <<>>
    <3>1. UNCHANGED <<filled, content, produced, cur>>
      BY <1>3, <2>1 DEF ParserDequeue, workerVars
    <3> QED BY <1>0, <2>0, <3>1 DEF Published
  <2>2. CASE filled # <<>> /\ content[Head(filled)].kinds = <<>>
    <3>1. filled' = Tail(filled) /\ cur' = cur
      BY <1>3, <2>2 DEF ParserDequeue
    <3>2. Head(filled) \in Buffers /\ Head(filled) = filled[1]
      BY <2>2, TailFacts DEF DataTypes
    <3>3. LastId(Head(filled)) = QueueFirst
      BY <2>2, <3>2, BufferNumbers DEF QueueFirst
    <3>4. QueueFirst' = QueueFirst
      BY <2>0, <2>2, <3>1, <3>3, DequeueChain
    <3>5. ChainInv'
      BY <2>0, <2>2, <3>1, DequeueChain DEF ChainInv, LastId
    <3> QED BY <2>0, <3>1, <3>4, <3>5 DEF Published
  <2>3. CASE filled # <<>> /\ content[Head(filled)].kinds # <<>>
    <3>1. filled' = Tail(filled) /\ cur' = <<Head(filled)>> /\ pos' = 1 /\ parserPc' = "parse"
      BY <1>3, <2>3 DEF ParserDequeue
    <3>2. Head(filled) \in Buffers /\ Head(filled) = filled[1]
      BY <2>3, TailFacts DEF DataTypes
    <3>3. cur' # <<>> /\ cur'[1] = Head(filled)
      BY <3>1
    <3>4. content[Head(filled)].first \in Nat
      BY <3>2, BufferNumbers
    <3>5. Published' = content[Head(filled)].first + 1 - 1
      BY <2>0, <3>1, <3>3 DEF Published
    <3>6. Published' = Published
      BY <2>0, <2>3, <3>2, <3>4, <3>5 DEF Published, QueueFirst
    <3>7. QueueFirst' = content'[cur'[1]].first + Len(content'[cur'[1]].kinds)
      BY <2>0, <2>3, <3>1, <3>3, DequeueChain DEF LastId
    <3>8. ChainInv'
      BY <2>0, <2>3, <3>1, <3>7, DequeueChain DEF ChainInv, LastId
    <3> QED BY <2>0, <3>6, <3>8
  <2> QED BY <2>1, <2>2, <2>3
<1>4. CASE ParserParseEvent
  <2>1. /\ UNCHANGED <<filled, content, produced, cur, pos>> /\ parserPc = "parse"
        /\ parserPc' = "callback" /\ ~ParserCallback
    BY <1>4 DEF ParserParseEvent, ParserCallback, workerVars
  <2> QED BY <1>0, <2>1 DEF Published
<1>5. CASE ParserReturnBuffer
  <2>1. /\ UNCHANGED <<filled, content, produced>> /\ parserPc = "parse" /\ cur' = <<>>
        /\ pos > Len(content[cur[1]].kinds) /\ ~ParserCallback
    BY <1>5 DEF ParserReturnBuffer, ParserCallback, CurBuffer, workerVars
  <2>2. cur # <<>> /\ Len(cur) = 1 /\ pos <= Len(content[cur[1]].kinds) + 1 /\ pos \in Nat
    BY <2>1 DEF CurInv, DataTypes
  <2>3. cur[1] \in Buffers
    BY <2>2 DEF DataTypes
  <2>4. content[cur[1]].first \in Nat /\ Len(content[cur[1]].kinds) \in Nat
    BY <2>3, BufferNumbers
  <2>5. pos = Len(content[cur[1]].kinds) + 1
    BY <2>1, <2>2, <2>4
  <2>6. content[cur[1]].first + pos - 1 = content[cur[1]].first + Len(content[cur[1]].kinds)
    BY <2>4, <2>5
  <2>7. Published = QueueFirst
    BY <2>1, <2>2, <2>6 DEF Published, ChainInv, LastId
  <2>8. QueueFirst' = QueueFirst
    BY <2>1 DEF QueueFirst
  <2>9. ChainInv'
    BY <2>1 DEF ChainInv, LastId
  <2> QED BY <2>1, <2>7, <2>8, <2>9 DEF Published
<1>6. CASE ParserCallback
  <2>1. /\ UNCHANGED <<filled, content, produced, cur, pos>> /\ parserPc = "callback"
        /\ processed => parserPc' = "notify"
        /\ ~processed => parserPc' = parserPc
    BY <1>6, CallbackFacts DEF ControlTypes
  <2>2. cur # <<>>
    BY <2>1 DEF CurInv
  <2> QED BY <1>0, <1>6, <2>1, <2>2 DEF Published
<1>7. CASE ParserNotify
  <2>1. /\ UNCHANGED <<filled, content, produced, cur>> /\ parserPc = "notify"
        /\ parserPc' = "parse" /\ pos' = pos + 1 /\ ~ParserCallback
    BY <1>7 DEF ParserNotify, ParserCallback, workerVars
  <2>2. cur # <<>> /\ Len(cur) = 1 /\ pos \in Nat
    BY <2>1 DEF CurInv, DataTypes
  <2>3. cur[1] \in Buffers
    BY <2>2 DEF DataTypes
  <2>4. content[cur[1]].first \in Nat
    BY <2>3, BufferNumbers
  <2>5. content[cur[1]].first + (pos + 1) - 1 = content[cur[1]].first + pos
    BY <2>2, <2>4
  <2> QED BY <1>0, <2>1, <2>2, <2>5 DEF Published
<1>8. CASE ~WorkerFill /\ ~Parser
  BY <1>0, <1>8, CurFrame DEF Published, Parser
<1> QED BY <1>1, <1>2, <1>3, <1>4, <1>5, <1>6, <1>7, <1>8 DEF Parser

\* The monitor's part of the invariant.
LEMMA MonitorKept ==
    ASSUME DataTypes, ControlTypes, CurInv, MonitorInv, [Next]_vars PROVE MonitorInv'
<1>1. CASE Worker
  <2>1. /\ workerState = "Running" /\ UNCHANGED <<monitorPc, userPc, ready, event>>
    BY <1>1 DEF Worker, WorkerFill, WorkerDone, ctxVars, userVars
  <2> QED BY <2>1 DEF MonitorInv
<1>2. CASE ParserCallback
  <2>1. EventView.id # 0
    BY <1>2, EventViewType DEF ParserCallback
  <2>2. /\ UNCHANGED <<workerState, filled, monitorPc, userPc>>
        /\ event' = EventView \/ UNCHANGED <<ready, event>>
    BY <1>2, CallbackFacts DEF ControlTypes
  <2> QED BY <2>1, <2>2 DEF MonitorInv
<1>3. CASE Parser /\ ~ParserCallback
  <2>1. UNCHANGED <<workerState, monitorPc, userPc, ready, event>>
    BY <1>3 DEF Parser, ParserCheckQuit, ParserDequeue, ParserParseEvent, ParserReturnBuffer,
       ParserNotify, workerVars, ctxVars, userVars
  <2>2. filled = <<>> => filled' = <<>>
    BY <1>3 DEF Parser, ParserCheckQuit, ParserDequeue, ParserParseEvent, ParserReturnBuffer,
       ParserNotify
  <2> QED BY <2>1, <2>2 DEF MonitorInv
<1>4. CASE MonitorWaitIdle \/ MonitorDrain \/ MonitorQuit \/ MonitorJoin \/ MonitorNotify
  <2>1. UNCHANGED <<workerState, filled, userPc, ready, event>>
    BY <1>4 DEF MonitorWaitIdle, MonitorDrain, MonitorQuit, MonitorJoin, MonitorNotify,
       workerVars, ctxVars, userVars
  <2>2. \/ monitorPc = "waitIdle" /\ monitorPc' = "drain" /\ workerState = "Idle"
        \/ monitorPc = "drain" /\ monitorPc' = "quit" /\ filled = <<>>
        \/ monitorPc = "quit" /\ monitorPc' = "join"
        \/ monitorPc = "join" /\ monitorPc' = "publish"
        \/ monitorPc = "notify" /\ monitorPc' = "done"
    BY <1>4 DEF MonitorWaitIdle, MonitorDrain, MonitorQuit, MonitorJoin, MonitorNotify, MonitorMove
  <2> QED BY <2>1, <2>2 DEF MonitorInv
<1>5. CASE MonitorPublish
  <2>1. /\ monitorPc = "publish" /\ UNCHANGED <<workerState, filled, userPc>>
        /\ monitorPc' = "notify" \/ UNCHANGED <<monitorPc, ready, event>>
    BY <1>5, PublishFacts DEF ControlTypes
  <2> QED BY <2>1 DEF MonitorInv
<1>6. CASE UserStart
  BY <1>6 DEF UserStart, UserMove, MonitorInv, ctxVars
<1>7. CASE UserStartMonitor
  BY <1>7 DEF UserStartMonitor, UserMove, MonitorInv, ctxVars
<1>8. CASE NextEventRelease
  BY <1>8 DEF NextEventRelease, UserMove, MonitorInv, workerVars
<1>9. CASE \/ NextEventNotify \/ NextEventWait \/ NextEventReturn \/ UserDone
           \/ UserDestroy \/ UserAbandon
  <2>1. /\ UNCHANGED <<workerState, filled, monitorPc, ready, event>>
        /\ userPc \in {"notify", "wait", "copy", "use", "destroy"}
        /\ userPc' # "startMonitor"
        /\ userPc' \in {"notify", "wait", "copy", "use"} =>
             userPc \in {"notify", "wait", "copy"}
    BY <1>9 DEF NextEventNotify, NextEventWait, NextEventReturn, UserDone, UserDestroy,
       UserAbandon, UserMove, workerVars, ctxVars
  <2> QED BY <2>1 DEF MonitorInv
<1>10. CASE UNCHANGED vars
  BY <1>10 DEF vars, workerVars, ctxVars, userVars, MonitorInv
<1> QED BY <1>1, <1>2, <1>3, <1>4, <1>5, <1>6, <1>7, <1>8, <1>9, <1>10
           DEF Next, Monitor, User

\* The handshake facts the delivery depends on.
LEMMA HandshakeFacts ==
    ASSUME HandshakeInv
    PROVE  /\ ready \in BOOLEAN /\ processed \in BOOLEAN /\ ready = ~processed
           /\ userPc \in {"copy", "use"} => ready
           /\ monitorPc \in {"publish", "notify", "done"} => parserPc = "done"
BY DEF HandshakeInv, HandshakeType

\* What the remaining steps leave alone: all of the worker's and most of the
\* parser's and the monitor's.
LEMMA QuietFrame ==
    ASSUME \/ Worker \/ (Parser /\ ~ParserCallback) \/ (Monitor /\ ~MonitorPublish)
           \/ UNCHANGED vars
    PROVE  /\ UNCHANGED <<ready, processed, event, userPc, held, delivered>>
           /\ parserPc = "done" => parserPc' = "done"
<1>1. UNCHANGED <<ready, processed, event, userPc, held, delivered>>
  BY DEF Worker, Parser, Monitor, WorkerFill, WorkerDone, ParserCheckQuit,
     ParserDequeue, ParserParseEvent, ParserReturnBuffer, ParserNotify, MonitorWaitIdle,
     MonitorDrain, MonitorQuit, MonitorJoin, MonitorNotify, vars, ctxVars, userVars
<1>2. parserPc = "done" => parserPc' = "done"
  BY DEF Worker, Parser, Monitor, WorkerFill, WorkerDone, ParserCheckQuit,
     ParserDequeue, ParserParseEvent, ParserReturnBuffer, ParserNotify, MonitorWaitIdle,
     MonitorDrain, MonitorQuit, MonitorJoin, MonitorNotify, vars, parserVars
<1> QED BY <1>1, <1>2

\* The steps of the user: what they change of the context and of the history.
LEMMA UserFrame ==
    ASSUME User \/ UserAbandon
    PROVE  /\ event' = event /\ parserPc' = parserPc
           /\ NextEventReturn \/ UNCHANGED <<held, delivered>>
           /\ NextEventRelease \/ UNCHANGED <<ready, processed>>
           /\ NextEventReturn \/ userPc' # "use"
           /\ UserDone \/ UserAbandon \/ UserDestroy
                \/ userPc' \notin {"destroy", "destroyed"}
<1>1. event' = event /\ parserPc' = parserPc
  BY DEF User, UserStart, UserStartMonitor, NextEventRelease, NextEventNotify,
     NextEventWait, NextEventReturn, UserDone, UserDestroy, UserAbandon, ctxVars, parserVars
<1>2. NextEventReturn \/ UNCHANGED <<held, delivered>>
  BY DEF User, UserStart, UserStartMonitor, NextEventRelease, NextEventNotify,
     NextEventWait, UserDone, UserDestroy, UserAbandon
<1>3. NextEventRelease \/ UNCHANGED <<ready, processed>>
  BY DEF User, UserStart, UserStartMonitor, NextEventNotify,
     NextEventWait, NextEventReturn, UserDone, UserDestroy, UserAbandon, ctxVars
<1>4. NextEventReturn \/ userPc' # "use"
  BY DEF User, UserStart, UserStartMonitor, NextEventRelease, NextEventNotify,
     NextEventWait, UserDone, UserDestroy, UserAbandon, UserMove
<1>5. UserDone \/ UserAbandon \/ UserDestroy \/ userPc' \notin {"destroy", "destroyed"}
  BY DEF User, UserStart, UserStartMonitor, NextEventRelease, NextEventNotify,
     NextEventWait, NextEventReturn, UserMove
<1> QED BY <1>1, <1>2, <1>3, <1>4, <1>5

LEMMA PublishedType == ASSUME DataTypes, CurInv PROVE Published \in Nat
<1>1. CASE cur = <<>> /\ filled = <<>>
  BY <1>1 DEF Published, QueueFirst, DataTypes
<1>2. CASE cur = <<>> /\ filled # <<>>
  <2>1. filled[1] \in Buffers
    BY <1>2, TailFacts DEF DataTypes
  <2>2. content[filled[1]].first \in Nat
    BY <2>1, BufferNumbers
  <2> QED BY <1>2, <2>2 DEF Published, QueueFirst
<1>3. CASE cur # <<>>
  <2>1. cur[1] \in Buffers
    BY <1>3, TailFacts DEF DataTypes
  <2>2. content[cur[1]].first \in Nat
    BY <2>1, BufferNumbers
  <2>3. pos \in Nat /\ pos >= 1
    BY <1>3 DEF CurInv, DataTypes
  <2>4. content[cur[1]].first + pos \in Nat /\ content[cur[1]].first + pos - 1 \in Nat
    BY <2>2, <2>3
  <2> QED BY <1>3, <2>4 DEF Published
<1> QED BY <1>1, <1>2, <1>3

\* The two steps that publish.
LEMMA CallbackPublishes ==
    ASSUME DataTypes, ControlTypes, CurInv, BuffersConserved, ChainInv,
           [Next]_vars, ParserCallback, processed
    PROVE  /\ Published' = Published + 1 /\ event'.id = Published + 1
           /\ event'.type # "None" /\ parserPc # "done"
           /\ ready' = TRUE /\ processed' = FALSE
           /\ UNCHANGED <<userPc, held, delivered>>
<1>1. /\ parserPc = "callback" /\ event' = EventView /\ ready' = TRUE /\ processed' = FALSE
      /\ UNCHANGED <<userPc, held, delivered>>
  BY CallbackFacts DEF ControlTypes
<1>2. cur # <<>> /\ pos \in Nat
  BY <1>1 DEF CurInv, DataTypes
<1>3. cur[1] \in Buffers
  BY <1>2, TailFacts DEF DataTypes
<1>4. content[cur[1]].first \in Nat
  BY <1>3, BufferNumbers
<1>5. Published = content[cur[1]].first + pos - 1
  BY <1>1, <1>2 DEF Published
<1>6. Published + 1 = content[cur[1]].first + pos
  BY <1>2, <1>4, <1>5
<1>7. Published' = content[cur[1]].first + pos
  BY ChainKept
<1>8. EventView.id = content[cur[1]].first + pos /\ EventView.type # "None"
  BY <1>1, EventViewType
<1> QED BY <1>1, <1>6, <1>7, <1>8

LEMMA CallbackWaits ==
    ASSUME ControlTypes, ParserCallback, ~processed
    PROVE  UNCHANGED <<ready, processed, event, userPc, held, delivered, parserPc>>
BY CallbackFacts DEF ControlTypes

\* Only a callback that publishes moves the id on.
LEMMA PublishedKept ==
    ASSUME TypeOK, BuffersConserved, CurInv, ChainInv, EventInv, [Next]_vars,
           event' = event
    PROVE  Published' = Published
<1> USE DEF TypeOK
<1>1. ASSUME ParserCallback, processed PROVE FALSE
  <2>1. event'.id = Published + 1
    BY <1>1, CallbackPublishes
  <2>2. event.id = 0 \/ event.id = Published
    BY DEF EventInv
  <2> QED BY <2>1, <2>2, PublishedType
<1> QED BY <1>1, ChainKept

\* The monitor publishes after the parser's end.
LEMMA MonitorPublishes ==
    ASSUME TypeOK, HandshakeInv, BuffersConserved, CurInv, ChainInv, [Next]_vars,
           MonitorPublish
    PROVE  /\ parserPc = "done" /\ parserPc' = "done" /\ Published' = Published
           /\ UNCHANGED <<userPc, held, delivered>>
           /\ processed => /\ event'.id = 0 /\ event'.type = "None"
                           /\ ready' = TRUE /\ processed' = FALSE
           /\ ~processed => UNCHANGED <<ready, processed, event>>
<1> USE DEF TypeOK
<1>1. parserPc = "done" /\ parserPc' = "done" /\ ~ParserCallback
  BY HandshakeFacts, PublishFacts DEF ParserCallback, ControlTypes
<1>2. Published' = Published
  BY <1>1, ChainKept
<1>3. UNCHANGED <<userPc, held, delivered>>
  BY PublishFacts DEF ControlTypes
<1>4. ASSUME processed
      PROVE  event'.id = 0 /\ event'.type = "None" /\ ready' = TRUE /\ processed' = FALSE
  BY <1>4, PublishFacts DEF NoneEvent
<1>5. ASSUME ~processed PROVE UNCHANGED <<ready, processed, event>>
  BY <1>5, PublishFacts DEF ControlTypes
<1> QED BY <1>1, <1>2, <1>3, <1>4, <1>5

\* The event in the context.
LEMMA EventKept ==
    ASSUME TypeOK, HandshakeInv, BuffersConserved, CurInv, ChainInv, EventInv, FirstInv,
           LastInv, [Next]_vars
    PROVE  EventInv'
<1> USE DEF TypeOK
<1>1. CASE ParserCallback /\ processed
  <2>1. /\ Published' = Published + 1 /\ event'.id = Published + 1 /\ event'.type # "None"
        /\ userPc' = userPc
    BY <1>1, CallbackPublishes
  <2>2. Published + 1 # 0
    BY PublishedType
  <2>3. userPc # "use"
    BY <1>1, HandshakeFacts
  <2> QED BY <2>1, <2>2, <2>3 DEF EventInv
<1>2. ASSUME UNCHANGED <<event, userPc, held, delivered>>,
             parserPc = "done" => parserPc' = "done"
      PROVE  EventInv'
  BY <1>2, PublishedKept DEF EventInv
<1>3. CASE ParserCallback /\ ~processed
  BY <1>2, <1>3, CallbackWaits
<1>4. CASE MonitorPublish
  <2>1. /\ parserPc' = "done" /\ Published' = Published /\ UNCHANGED <<userPc, held, delivered>>
    BY <1>4, MonitorPublishes
  <2>2. CASE processed
    <3>1. event'.id = 0 /\ event'.type = "None"
      BY <1>4, <2>2, MonitorPublishes
    <3>2. userPc # "use"
      BY <2>2, HandshakeFacts
    <3>3. Published <= 1 \/ \E i \in 1..Len(delivered) : delivered[i] = Published
      <4>1. CASE delivered = <<>>
        BY <2>2, <4>1 DEF FirstInv
      <4>2. CASE delivered # <<>>
        <5>1. event.id = delivered[Len(delivered)]
          BY <2>2, <4>2 DEF LastInv
        <5>2. Len(delivered) \in 1..Len(delivered)
          BY <4>2, TailFacts DEF DataTypes
        <5> QED BY <5>1, <5>2 DEF EventInv
      <4> QED BY <4>1, <4>2
    <3> QED BY <2>1, <3>1, <3>2, <3>3 DEF EventInv
  <2>3. CASE ~processed
    BY <1>2, <1>4, <2>1, <2>3, MonitorPublishes
  <2> QED BY <2>2, <2>3
<1>5. CASE \/ Worker \/ (Parser /\ ~ParserCallback) \/ (Monitor /\ ~MonitorPublish)
           \/ UNCHANGED vars
  BY <1>2, <1>5, QuietFrame
<1>6. CASE NextEventReturn
  <2>1. /\ userPc' = "use" /\ held' = event /\ event' = event
        /\ delivered' = Append(delivered, event.id) /\ parserPc' = parserPc
    BY <1>6 DEF NextEventReturn, UserMove, ctxVars, parserVars
  <2>2. event.id \in Nat /\ delivered \in Seq(Nat)
    BY DEF EventTypes, EventContainer, DataTypes
  <2>3. \A i \in 1..Len(delivered) : i \in 1..Len(delivered') /\ delivered'[i] = delivered[i]
    BY <2>1, <2>2, AppendFacts
  <2> QED BY <2>1, <2>3, PublishedKept DEF EventInv
<1>7. CASE (User \/ UserAbandon) /\ ~NextEventReturn
  BY <1>7, UserFrame, PublishedKept DEF EventInv
<1> QED BY <1>1, <1>3, <1>4, <1>5, <1>6, <1>7 DEF Next, Parser, Monitor

\* Before the first delivery.
LEMMA FirstKept ==
    ASSUME TypeOK, HandshakeInv, BuffersConserved, CurInv, ChainInv, EventInv, FirstInv,
           [Next]_vars
    PROVE  FirstInv'
<1> USE DEF TypeOK
<1> SUFFICES ASSUME delivered' = <<>>
             PROVE  /\ userPc' \notin {"use", "destroy", "destroyed"}
                    /\ Published' <= 2
                    /\ processed' \/ BeforeRelease' => Published' <= 1
                    /\ processed' /\ BeforeRelease' => Published' = 0
  BY DEF FirstInv
<1>0. Published \in Nat /\ processed \in BOOLEAN
  BY PublishedType DEF ControlTypes
<1>1. ASSUME UNCHANGED <<event, processed, userPc, delivered>>
      PROVE  /\ userPc' \notin {"use", "destroy", "destroyed"}
             /\ Published' <= 2
             /\ processed' \/ BeforeRelease' => Published' <= 1
             /\ processed' /\ BeforeRelease' => Published' = 0
  BY <1>1, PublishedKept DEF FirstInv, BeforeRelease
<1>2. CASE ParserCallback /\ processed
  <2>1. Published' = Published + 1 /\ processed' = FALSE /\ UNCHANGED <<userPc, delivered>>
    BY <1>2, CallbackPublishes
  <2>2. /\ Published <= 1
        /\ BeforeRelease => Published = 0
        /\ userPc \notin {"use", "destroy", "destroyed"}
    BY <1>2, <2>1 DEF FirstInv
  <2> QED BY <1>0, <2>1, <2>2 DEF BeforeRelease
<1>3. CASE ParserCallback /\ ~processed
  BY <1>1, <1>3, CallbackWaits
<1>4. CASE MonitorPublish
  <2>1. Published' = Published /\ UNCHANGED <<userPc, delivered>>
    BY <1>4, MonitorPublishes
  <2>2. processed' => processed
    BY <1>4, <1>0, MonitorPublishes
  <2> QED BY <2>1, <2>2 DEF FirstInv, BeforeRelease
<1>5. CASE \/ Worker \/ (Parser /\ ~ParserCallback) \/ (Monitor /\ ~MonitorPublish)
           \/ UNCHANGED vars
  BY <1>1, <1>5, QuietFrame
<1>6. CASE NextEventReturn
  <2>1. delivered' # <<>>
    <3>1. delivered \in Seq(Nat) /\ event.id \in Nat /\ delivered' = Append(delivered, event.id)
      BY <1>6 DEF NextEventReturn, DataTypes, EventTypes, EventContainer
    <3>2. Len(delivered') = Len(delivered) + 1 /\ Len(delivered) \in Nat
      BY <3>1, AppendFacts
    <3> QED BY <3>2
  <2> QED BY <2>1
<1>7. CASE NextEventRelease
  <2>1. /\ BeforeRelease /\ userPc' = "notify" /\ UNCHANGED <<event, delivered>>
    BY <1>7 DEF NextEventRelease, UserMove, BeforeRelease
  <2> QED BY <1>0, <2>1, PublishedKept DEF FirstInv, BeforeRelease
<1>8. CASE (User \/ UserAbandon) /\ ~NextEventReturn /\ ~NextEventRelease
  <2>1. UNCHANGED <<event, processed, delivered>>
    BY <1>8, UserFrame
  <2>2. userPc \notin {"use", "destroy", "destroyed"}
    BY <2>1 DEF FirstInv
  <2>3. /\ userPc' \notin {"use", "destroy", "destroyed"}
        /\ BeforeRelease' => BeforeRelease
    BY <1>8, <2>2 DEF User, UserStart, UserStartMonitor, NextEventNotify, NextEventWait,
       UserDone, UserDestroy, UserAbandon, UserMove, BeforeRelease
  <2> QED BY <2>1, <2>3, PublishedKept DEF FirstInv
<1> QED BY <1>2, <1>3, <1>4, <1>5, <1>6, <1>7, <1>8 DEF Next, Parser, Monitor

\* After the last delivery.
LEMMA LastKept ==
    ASSUME TypeOK, HandshakeInv, BuffersConserved, CurInv, ChainInv, MonitorInv, EventInv,
           FirstInv, LastInv, [Next]_vars
    PROVE  LastInv'
<1> USE DEF TypeOK
<1>0. Published \in Nat /\ processed \in BOOLEAN /\ ready \in BOOLEAN /\ ready = ~processed
  BY PublishedType, HandshakeFacts
<1>1. ASSUME UNCHANGED <<event, ready, processed, userPc, delivered>>,
             parserPc = "done" => parserPc' = "done"
      PROVE  LastInv'
  BY <1>1 DEF LastInv, InNextEvent
<1>2. CASE ParserCallback /\ processed
  <2>1. /\ event'.id = Published + 1 /\ parserPc # "done"
        /\ ready' = TRUE /\ processed' = FALSE /\ UNCHANGED <<userPc, delivered>>
    BY <1>2, CallbackPublishes
  <2>2. ASSUME delivered # <<>>
        PROVE  InNextEvent /\ event'.id = delivered[Len(delivered)] + 1
                 /\ delivered[Len(delivered)] # 0
    <3>1. /\ InNextEvent /\ event.id = delivered[Len(delivered)]
          /\ delivered[Len(delivered)] # 0
      BY <1>0, <1>2, <2>1, <2>2 DEF LastInv
    <3>2. event.id = Published
      BY <3>1 DEF EventInv
    <3> QED BY <2>1, <3>1, <3>2
  <2> QED BY <2>1, <2>2 DEF LastInv, InNextEvent
<1>3. CASE ParserCallback /\ ~processed
  BY <1>1, <1>3, CallbackWaits
<1>4. CASE MonitorPublish
  <2>1. parserPc' = "done" /\ UNCHANGED <<userPc, delivered>>
    BY <1>4, MonitorPublishes
  <2>2. CASE processed
    <3>1. event'.id = 0 /\ ready' = TRUE /\ processed' = FALSE
      BY <1>4, <2>2, MonitorPublishes
    <3>2. delivered # <<>> => InNextEvent
      BY <1>0, <2>2 DEF LastInv
    <3> QED BY <2>1, <3>1, <3>2 DEF LastInv, InNextEvent
  <2>3. CASE ~processed
    BY <1>1, <1>4, <2>1, <2>3, MonitorPublishes
  <2> QED BY <2>2, <2>3
<1>5. CASE \/ Worker \/ (Parser /\ ~ParserCallback) \/ (Monitor /\ ~MonitorPublish)
           \/ UNCHANGED vars
  BY <1>1, <1>5, QuietFrame
<1>6. CASE NextEventReturn
  <2>1. /\ userPc = "copy" /\ userPc' = "use" /\ delivered' = Append(delivered, event.id)
        /\ UNCHANGED <<event, ready, processed, parserPc>>
    BY <1>6 DEF NextEventReturn, UserMove, ctxVars, parserVars
  <2>2. event.id \in Nat /\ delivered \in Seq(Nat)
    BY DEF EventTypes, EventContainer, DataTypes
  <2>3. delivered'[Len(delivered')] = event.id
    BY <2>1, <2>2, AppendFacts
  <2>4. ready
    BY <2>1, HandshakeFacts
  <2>5. event.id = 0 => parserPc = "done"
    BY <2>1, <2>4, HandshakeFacts DEF MonitorInv
  <2> QED BY <2>1, <2>3, <2>4, <2>5 DEF LastInv, InNextEvent
<1>7. CASE NextEventRelease
  <2>1. /\ userPc = "release" /\ userPc' = "notify" /\ ready' = FALSE /\ processed' = TRUE
        /\ UNCHANGED <<event, delivered, parserPc>>
    BY <1>7 DEF NextEventRelease, UserMove, parserVars
  <2> QED BY <2>1 DEF LastInv, InNextEvent
<1>8. CASE (User \/ UserAbandon) /\ ~NextEventReturn /\ ~NextEventRelease
  <2>1. UNCHANGED <<event, ready, processed, delivered, parserPc>>
    BY <1>8, UserFrame
  <2>2. InNextEvent' <=> InNextEvent
    BY <1>8 DEF User, UserStart, UserStartMonitor, NextEventNotify, NextEventWait,
       UserDone, UserDestroy, UserAbandon, UserMove, InNextEvent
  <2> QED BY <2>1, <2>2 DEF LastInv
<1> QED BY <1>2, <1>3, <1>4, <1>5, <1>6, <1>7, <1>8 DEF Next, Parser, Monitor

\* The history grows by the event that follows.
LEMMA OrderKept ==
    ASSUME TypeOK, HandshakeInv, CurInv, EventInv, FirstInv, LastInv, DeliveredInOrder,
           [Next]_vars
    PROVE  DeliveredInOrder'
<1> USE DEF TypeOK
<1>1. CASE delivered' = delivered
  BY <1>1 DEF DeliveredInOrder
<1>2. CASE NextEventReturn
  <2>1. userPc = "copy" /\ delivered' = Append(delivered, event.id)
    BY <1>2 DEF NextEventReturn, UserMove
  <2>2. event.id \in Nat /\ delivered \in Seq(Nat) /\ Published \in Nat
    BY PublishedType DEF EventTypes, EventContainer, DataTypes
  <2>3. /\ Len(delivered) \in Nat /\ Len(delivered') = Len(delivered) + 1
        /\ \A i \in 1..Len(delivered) : delivered'[i] = delivered[i]
        /\ delivered'[Len(delivered) + 1] = event.id
    BY <2>1, <2>2, AppendFacts
  <2>4. ready
    BY <2>1, HandshakeFacts
  <2>5. CASE delivered = <<>>
    <3>1. event.id \in {0, 1, 2}
      BY <2>2, <2>5 DEF FirstInv, EventInv
    <3>2. Len(delivered) = 0
      BY <2>5
    <3> QED BY <2>3, <3>1, <3>2 DEF DeliveredInOrder
  <2>6. CASE delivered # <<>>
    <3>1. Len(delivered) \in 1..Len(delivered) /\ 1 \in 1..Len(delivered)
      BY <2>2, <2>6, TailFacts
    <3>2. event.id \in IF delivered[Len(delivered)] = 0 THEN {0}
                       ELSE {0, delivered[Len(delivered)] + 1}
      BY <2>1, <2>4, <2>6 DEF LastInv, InNextEvent
    <3>3. delivered'[1] \in {0, 1, 2}
      BY <2>3, <2>6, <3>1 DEF DeliveredInOrder
    <3>4. ASSUME NEW i \in 1..(Len(delivered') - 1)
          PROVE  delivered'[i + 1] \in IF delivered'[i] = 0 THEN {0} ELSE {0, delivered'[i] + 1}
      <4>1. CASE i = Len(delivered)
        BY <2>3, <3>1, <3>2, <4>1
      <4>2. CASE i # Len(delivered)
        <5>1. i \in 1..(Len(delivered) - 1) /\ i \in 1..Len(delivered) /\ i + 1 \in 1..Len(delivered)
          BY <2>3, <4>2
        <5>2. delivered[i + 1] \in IF delivered[i] = 0 THEN {0} ELSE {0, delivered[i] + 1}
          BY <5>1 DEF DeliveredInOrder
        <5> QED BY <2>3, <5>1, <5>2
      <4> QED BY <4>1, <4>2
    <3> QED BY <3>3, <3>4 DEF DeliveredInOrder
  <2> QED BY <2>5, <2>6
<1>3. CASE ~NextEventReturn
  <2>1. delivered' = delivered
    <3>0. processed \in BOOLEAN
      BY DEF ControlTypes
    <3>1. CASE ParserCallback
      BY <3>0, <3>1, CallbackFacts
    <3>2. CASE MonitorPublish
      BY <3>0, <3>2, PublishFacts
    <3>3. CASE User \/ UserAbandon
      BY <1>3, <3>3, UserFrame
    <3>4. CASE \/ Worker \/ (Parser /\ ~ParserCallback) \/ (Monitor /\ ~MonitorPublish)
               \/ UNCHANGED vars
      BY <3>4, QuietFrame
    <3> QED BY <3>1, <3>2, <3>3, <3>4 DEF Next
  <2> QED BY <1>1, <2>1
<1> QED BY <1>2, <1>3

----------------------------------------------------------------------------

LEMMA DeliveryInit == Init => DeliveryInv
<1> SUFFICES ASSUME Init PROVE DeliveryInv
  OBVIOUS
<1>1. TypeOK /\ HandshakeInv /\ BuffersConserved
  BY InitTypes, HandshakeInit, InitBuffers
<1>2. CurInv /\ ChainInv /\ Published = 0
  BY DEF Init, CurInv, ChainInv, Published, QueueFirst
<1>3. MonitorInv /\ EventInv
  BY <1>2 DEF Init, MonitorInv, EventInv, NoneEvent
<1>4. FirstInv /\ LastInv /\ DeliveredInOrder
  BY <1>2 DEF Init, FirstInv, LastInv, DeliveredInOrder, BeforeRelease
<1> QED BY <1>1, <1>2, <1>3, <1>4 DEF DeliveryInv

LEMMA DeliveryStep == DeliveryInv /\ [Next]_vars => DeliveryInv'
<1> SUFFICES ASSUME DeliveryInv, [Next]_vars PROVE DeliveryInv'
  OBVIOUS
<1>1. /\ TypeOK /\ HandshakeInv /\ BuffersConserved /\ CurInv /\ ChainInv
      /\ MonitorInv /\ EventInv /\ FirstInv /\ LastInv /\ DeliveredInOrder
      /\ DataTypes /\ EventTypes /\ ControlTypes
  BY DEF DeliveryInv, TypeOK
<1>2. TypeOK' /\ HandshakeInv'
  BY <1>1, DataTypesKept, EventTypesKept, ControlTypesKept, HandshakeStep DEF TypeOK
<1>3. BuffersConserved' /\ CurInv' /\ ChainInv'
  BY <1>1, BuffersKept, CurKept, ChainKept
<1>4. MonitorInv' /\ EventInv' /\ FirstInv'
  BY <1>1, MonitorKept, EventKept, FirstKept
<1>5. LastInv' /\ DeliveredInOrder'
  BY <1>1, LastKept, OrderKept
<1> QED BY <1>2, <1>3, <1>4, <1>5 DEF DeliveryInv

\* The invariant of the delivery holds in every reachable state.
THEOREM DeliveryInvariant == Spec => []DeliveryInv
BY DeliveryInit, DeliveryStep, PTL DEF Spec

\* When the caller sees None the queue is empty and the parser gone, so the id
\* published last is that of the last event produced.
LEMMA DeliveryNoneIsLast == DeliveryInv => NoneIsLast
<1> SUFFICES ASSUME DeliveryInv, userPc = "use", held.type = "None"
             PROVE  produced <= 1 \/ \E i \in 1..Len(delivered) : delivered[i] = produced
  BY DEF NoneIsLast
<1>1. event.id = 0 /\ ready
  BY HandshakeFacts DEF DeliveryInv, EventInv
<1>2. monitorPc \in {"notify", "done"} /\ filled = <<>>
  BY <1>1 DEF DeliveryInv, MonitorInv
<1>3. cur = <<>>
  BY <1>2, HandshakeFacts DEF DeliveryInv, CurInv
<1>4. Published = produced
  BY <1>2, <1>3 DEF Published, QueueFirst
<1> QED BY <1>1, <1>4 DEF DeliveryInv, EventInv

\* next_event() hands out every event of a run, in order and once, except at most
\* the very first, and None after the last; the buffers circulate without loss.
\* The interleavings of the worker, the parser, the monitor and the caller are all
\* covered, for any number of buffers, events and runs.
THEOREM DeliveryTheorem == Spec => []EventsDelivered
<1>1. DeliveryInv => EventsDelivered
  BY DeliveryNoneIsLast DEF DeliveryInv, EventsDelivered
<1> QED BY <1>1, DeliveryInvariant, PTL
============================================================================
