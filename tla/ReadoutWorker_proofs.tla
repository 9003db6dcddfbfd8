------------------------ MODULE ReadoutWorker_proofs ------------------------
(***************************************************************************)
(* Proofs about ReadoutWorker for every number of buffers, calls, sections *)
(* and every choice of the options.                                        *)
(***************************************************************************)
EXTENDS ReadoutWorker, TLAPS

\* Where the worker thread is while it has no writer thread.
NoWriterPcs == {"none", "Joined", "SetIdle", "DesireIdle", "exited", "Redirect",
                "Abort", "AbortDesired", "Spawn"}

\* The threads the worker thread starts have ended where it has joined them.
ThreadInv ==
    /\ OneReader
    /\ lpc \in NoWriterPcs => wpc \in {"none", "done"}

\* Initially there are no threads.
LEMMA ThreadInit == Init => ThreadInv
  BY DEF Init, ThreadInv, OneReader

\* Threads are started and joined in a fixed order.
LEMMA ThreadStep == ThreadInv /\ [Next]_vars => ThreadInv'
<1> SUFFICES ASSUME ThreadInv, [Next]_vars PROVE ThreadInv'
  OBVIOUS
<1> USE DEF ThreadInv, OneReader, NoWriterPcs, ReaderPcs
<1>1. CASE UNCHANGED vars
  BY <1>1 DEF vars, loopVars, readerVars, writerVars
<1>2. CASE UserNext
  BY <1>2 DEF UserNext, FacadeStart, UserStart, UserStartDesired,
     UserStartJoin, UserFuture, UserStop, UserPause, UserResume, Check,
     UserDesire, FacadeStopped, FacadeDestroy, loopVars, readerVars, writerVars
<1>3. CASE LoopRedirect \/ LoopAbort \/ LoopSpawn \/ LoopSetRunning
  BY <1>3 DEF LoopRedirect, LoopAbort, LoopSpawn, LoopSetRunning, SetState,
     SetDesired, readerVars, writerVars
<1>4. CASE startReadout
  BY <1>4 DEF startReadout, SpawnReader, StartTriggers, McstCommands, DaqMode,
     QuitReader, JoinReader, readerVars, writerVars
<1>5. CASE terminateReadout
  BY <1>5 DEF terminateReadout, SpawnReader, McstCommands, DaqMode, QuitReader,
     JoinReader, readerVars, writerVars
<1>6. CASE LoopStarted \/ LoopPlugins \/ LoopCheck \/ LoopReadout
           \/ LoopReadoutFlush \/ LoopTerminated \/ LoopEnd
  BY <1>6 DEF LoopStarted, LoopPlugins, LoopCheck, LoopReadout, Begin,
     LoopReadoutFlush, LoopTerminated, LoopEnd, readerVars, writerVars
<1>7. CASE LoopPause \/ LoopResume
  BY <1>7 DEF LoopPause, LoopResume, PauseResumeSection, LoopFlush, SetState,
     SetDesired, readerVars, writerVars
<1>8. CASE LoopStop
  BY <1>8 DEF LoopStop, SetState, SetDesired, PauseResumeSection, LoopFlush,
     IfWriterRunning, maybePutBackSnoopBuffer, StopSentinel, StopJoin,
     StopRelease, readerVars, writerVars
<1>9. CASE ReaderNext
  BY <1>9 DEF ReaderNext, ReaderLoad, ReaderRead, ReaderFlush, loopVars,
     writerVars
<1>10. CASE WriterNext
  BY <1>10 DEF WriterNext, WriterStart, WriterDequeue, WriterWrite, WriterThrow,
     WriterFinish, loopVars, readerVars
<1>11. CASE Environment
  BY <1>11 DEF Environment, SnoopTake, Trigger, LinkLost, loopVars, readerVars,
     writerVars
<1> QED
  BY <1>1, <1>2, <1>3, <1>4, <1>5, <1>6, <1>7, <1>8, <1>9, <1>10, <1>11
     DEF Next, LoopNext

-----------------------------------------------------------------------------
BufferInv == BufferTypes /\ BuffersConserved

\* Initially all buffers are in the empty queues.
LEMMA BufferInit == Init => BufferInv
  BY BufferAssumption DEF Init, BufferInv, BufferTypes, BuffersConserved

\* Sections of one kind, numbered from sections + 1.
LEMMA SomeType ==
  ASSUME NEW kind \in Kinds, NEW k \in Nat, sections \in Nat
  PROVE  Some(kind, k) \in Seq(Section) /\ Len(Some(kind, k)) = k
  BY DEF Some, Section

\* Writing to the output buffer takes at most one snoop buffer.
LEMMA WriteBuffers ==
  ASSUME BufferInv, NEW new \in Seq(Section), Write(new),
         UNCHANGED <<lfVars, snFilled>>, wpc' = "write" <=> wpc = "write"
  PROVE  BufferInv'
  <1>1. out' \in Seq(Section) /\ sections' \in Nat
    <2>1. out \o new \in Seq(Section) /\ Len(new) \in Nat
      BY DEF BufferInv, BufferTypes
    <2> QED
      BY <2>1 DEF BufferInv, BufferTypes, Write
  <1>2. CASE outputBuffer = "none" /\ snEmpty > 0
    BY <1>1, <1>2 DEF BufferInv, BufferTypes, BuffersConserved, Write, lfVars
  <1>3. CASE outputBuffer = "none" /\ ~(snEmpty > 0)
    BY <1>1, <1>3 DEF BufferInv, BufferTypes, BuffersConserved, Write, lfVars
  <1>4. CASE outputBuffer # "none"
    BY <1>1, <1>4 DEF BufferInv, BufferTypes, BuffersConserved, Write, lfVars
  <1> QED
    BY <1>2, <1>3, <1>4

\* What enqueue() and dequeue() do to a queue.
LEMMA QueueType ==
  ASSUME NEW T, NEW q \in Seq(T)
  PROVE  /\ Len(q) \in Nat
         /\ \A x \in T : Append(q, x) \in Seq(T) /\ Len(Append(q, x)) = Len(q) + 1
         /\ q # <<>> => /\ Tail(q) \in Seq(T) /\ Head(q) \in T
                        /\ Len(Tail(q)) = Len(q) - 1 /\ Len(q) > 0
  OBVIOUS

\* Steps that touch neither buffers nor queues.
LEMMA SameBuffers ==
  ASSUME BufferInv, UNCHANGED <<lfVars, snFilled, outVars>>,
         wpc' = "write" <=> wpc = "write"
  PROVE  BufferInv'
  BY DEF BufferInv, BufferTypes, BuffersConserved, lfVars, outVars

\* A flush moves one listfile buffer and hands over the snoop buffer.
LEMMA FlushBuffers ==
  ASSUME BufferInv, flushCurrentOutputBuffer, wpc' = wpc
  PROVE  BufferInv'
  <1>1. CASE out = <<>>
    BY <1>1, SameBuffers DEF flushCurrentOutputBuffer
  <1>2. CASE out # <<>>
    <2>1. lfFilled' \in Seq(Seq(Section)) /\ Len(lfFilled') = Len(lfFilled) + 1
      <3>1. lfFilled' = Append(lfFilled, out)
        BY <1>2 DEF flushCurrentOutputBuffer
      <3>2. lfFilled \in Seq(Seq(Section)) /\ out \in Seq(Section)
        BY DEF BufferInv, BufferTypes
      <3>3. /\ Append(lfFilled, out) \in Seq(Seq(Section))
            /\ Len(Append(lfFilled, out)) = Len(lfFilled) + 1
        BY <3>2, QueueType
      <3> QED
        BY <3>1, <3>3
    <2>2. out' \in Seq(Section) /\ sections' \in Nat /\ snEmpty' = snEmpty
      BY <1>2 DEF flushCurrentOutputBuffer, BufferInv, BufferTypes
    <2>3. lfEmpty' = lfEmpty - 1 /\ lfEmpty' \in Nat
      BY <1>2 DEF flushCurrentOutputBuffer, BufferInv, BufferTypes
    <2>4. /\ outputBuffer' = "none"
          /\ snFilled' = IF outputBuffer = "snoop" THEN snFilled + 1 ELSE snFilled
      BY <1>2 DEF flushCurrentOutputBuffer
    <2>5. Len(lfFilled) \in Nat
      BY DEF BufferInv, BufferTypes
    <2>6. BufferTypes'
      BY <2>1, <2>2, <2>3, <2>4 DEF BufferInv, BufferTypes
    <2>7. BuffersConserved'
      <3>1. CASE outputBuffer = "snoop"
        BY <2>1, <2>2, <2>3, <2>4, <2>5, <3>1
           DEF BufferInv, BufferTypes, BuffersConserved
      <3>2. CASE outputBuffer # "snoop"
        BY <2>1, <2>2, <2>3, <2>4, <2>5, <3>2
           DEF BufferInv, BufferTypes, BuffersConserved
      <3> QED
        BY <3>1, <3>2
    <2> QED
      BY <2>6, <2>7 DEF BufferInv
  <1> QED
    BY <1>1, <1>2

\* Every step conserves the buffers.
LEMMA BufferStep == ThreadInv /\ BufferInv /\ [Next]_vars => BufferInv'
<1> SUFFICES ASSUME ThreadInv, BufferInv, [Next]_vars PROVE BufferInv'
  OBVIOUS
<1>t. <<>> \in Seq(Section) /\ sections \in Nat
  BY DEF BufferInv, BufferTypes
<1>s. \A kind \in Kinds : \A k \in Nat : Some(kind, k) \in Seq(Section)
  BY <1>t, SomeType
<1>k. Some("BeginRun", 1) \in Seq(Section) /\ Some("Tick", 1) \in Seq(Section)
      /\ Some("Pause", 1) \in Seq(Section) /\ Some("Resume", 1) \in Seq(Section)
      /\ Some("EndRun", 1) \in Seq(Section)
      /\ \A k \in Nat : Some("Data", k) \in Seq(Section)
  BY <1>s DEF Kinds
<1>1. CASE UNCHANGED vars
  BY <1>1, SameBuffers DEF vars, writerVars
<1>2. CASE UserNext
  BY <1>2, SameBuffers DEF UserNext, FacadeStart, UserStart, UserStartDesired,
     UserStartJoin, UserFuture, UserStop, UserPause, UserResume, Check,
     UserDesire, FacadeStopped, FacadeDestroy, writerVars
<1>3. CASE LoopRedirect \/ LoopAbort \/ LoopSetRunning
  BY <1>3, SameBuffers DEF LoopRedirect, LoopAbort, LoopSetRunning, SetState,
     SetDesired, writerVars
<1>4. CASE LoopSpawn
  <2>1. wpc # "write" /\ wpc' # "write"
    BY <1>4 DEF LoopSpawn, ThreadInv, NoWriterPcs
  <2>2. Write(Some("BeginRun", 1)) /\ UNCHANGED <<lfVars, snFilled>>
    BY <1>4 DEF LoopSpawn
  <2> QED
    BY <2>1, <2>2, <1>k, WriteBuffers
<1>5. CASE startReadout \/ terminateReadout
  BY <1>5, SameBuffers DEF startReadout, terminateReadout, SpawnReader,
     StartTriggers, McstCommands, DaqMode, QuitReader, JoinReader, writerVars
<1>6. CASE LoopStarted \/ LoopCheck \/ LoopTerminated \/ LoopEnd
  BY <1>6, SameBuffers DEF LoopStarted, LoopCheck, LoopTerminated, LoopEnd,
     writerVars
<1>7. CASE LoopPlugins
  <2>1. UNCHANGED <<lfVars, snFilled, wpc>>
        /\ (Write(<<>>) \/ Write(Some("Tick", 1)))
    BY <1>7 DEF LoopPlugins, writerVars
  <2> QED
    BY <2>1, <1>t, <1>k, WriteBuffers
<1>8. CASE LoopReadout \/ ReaderRead
  <2>1. UNCHANGED <<lfVars, snFilled, wpc>>
    BY <1>8 DEF LoopReadout, ReaderRead, writerVars
  <2>2. PICK k \in Nat : Write(Some("Data", k))
    BY <1>8 DEF LoopReadout, ReaderRead, Read
  <2> QED
    BY <2>1, <2>2, <1>k, WriteBuffers
<1>9. CASE LoopReadoutFlush \/ ReaderFlush
  BY <1>9, FlushBuffers DEF LoopReadoutFlush, ReaderFlush, writerVars
<1>10. CASE LoopPause
  <2>1. CASE PauseResumeSection("PauseSection", "Pause", "PauseFlush")
    BY <2>1, <1>k, WriteBuffers DEF PauseResumeSection, writerVars
  <2>2. CASE LoopFlush("PauseFlush", "SetPaused")
    BY <2>2, FlushBuffers DEF LoopFlush, writerVars
  <2>3. CASE UNCHANGED <<lfVars, snFilled, outVars, wpc>>
    BY <2>3, SameBuffers
  <2> QED
    BY <1>10, <2>1, <2>2, <2>3 DEF LoopPause, SetState, SetDesired, writerVars
<1>11. CASE LoopResume
  <2>1. CASE PauseResumeSection("ResumeSection", "Resume", "ResumeFlush")
    BY <2>1, <1>k, WriteBuffers DEF PauseResumeSection, writerVars
  <2>2. CASE LoopFlush("ResumeFlush", "SetResumed")
    BY <2>2, FlushBuffers DEF LoopFlush, writerVars
  <2>3. CASE UNCHANGED <<lfVars, snFilled, outVars, wpc>>
    BY <2>3, SameBuffers
  <2> QED
    BY <1>11, <2>1, <2>2, <2>3 DEF LoopResume, SetState, SetDesired, writerVars
<1>12. CASE LoopStop
  <2>1. CASE PauseResumeSection("StopPlugins", "EndRun", "IfFlush")
    BY <2>1, <1>k, WriteBuffers DEF PauseResumeSection, writerVars
  <2>2. CASE LoopFlush("StopFlush", "PutBack")
    BY <2>2, FlushBuffers DEF LoopFlush, writerVars
  <2>3. CASE UNCHANGED <<lfVars, snFilled, outVars, wpc>>
    BY <2>3, SameBuffers
  <2>4. CASE maybePutBackSnoopBuffer
    <3>1. /\ UNCHANGED <<lfEmpty, lfFilled, snFilled, wpc, sections>>
          /\ outputBuffer' = "none" /\ out' = <<>>
          /\ snEmpty' = IF outputBuffer = "snoop" THEN snEmpty + 1 ELSE snEmpty
      BY <2>4 DEF maybePutBackSnoopBuffer, lfVars, writerVars
    <3>2. BufferTypes'
      BY <3>1, <1>t DEF BufferInv, BufferTypes
    <3>3. BuffersConserved'
      BY <3>1 DEF BufferInv, BufferTypes, BuffersConserved
    <3> QED
      BY <3>2, <3>3 DEF BufferInv
  <2>5. CASE StopSentinel
    <3>1. lfFilled' \in Seq(Seq(Section)) /\ Len(lfFilled') = Len(lfFilled) + 1
      BY <2>5, <1>t DEF StopSentinel, BufferInv, BufferTypes
    <3>2. lfEmpty' = lfEmpty - 1 /\ lfEmpty' \in Nat /\ Len(lfFilled) \in Nat
      BY <2>5 DEF StopSentinel, BufferInv, BufferTypes
    <3> QED
      BY <2>5, <3>1, <3>2 DEF StopSentinel, BufferInv, BufferTypes,
         BuffersConserved, outVars, writerVars
  <2> QED
    BY <1>12, <2>1, <2>2, <2>3, <2>4, <2>5 DEF LoopStop, SetState, SetDesired,
       IfWriterRunning, StopJoin, StopRelease, writerVars
<1>13. CASE ReaderLoad
  BY <1>13, SameBuffers DEF ReaderLoad, writerVars
<1>14. CASE WriterStart \/ WriterThrow \/ WriterFinish
  BY <1>14, SameBuffers DEF WriterStart, WriterThrow, WriterFinish
<1>15. CASE WriterDequeue
  <2>1. /\ lfFilled' \in Seq(Seq(Section))
        /\ Len(lfFilled') = Len(lfFilled) - 1
        /\ Len(lfFilled) \in Nat /\ Len(lfFilled) > 0
    <3>1. lfFilled # <<>> /\ lfFilled' = Tail(lfFilled)
      BY <1>15 DEF WriterDequeue
    <3>2. lfFilled \in Seq(Seq(Section))
      BY DEF BufferInv, BufferTypes
    <3>3. /\ Tail(lfFilled) \in Seq(Seq(Section)) /\ Len(lfFilled) \in Nat
          /\ Len(Tail(lfFilled)) = Len(lfFilled) - 1 /\ Len(lfFilled) > 0
      BY <3>1, <3>2, QueueType
    <3> QED
      BY <3>1, <3>3
  <2>2. wpc = "dequeue" /\ UNCHANGED <<snFilled, snEmpty, outputBuffer, out, sections>>
    BY <1>15 DEF WriterDequeue, outVars
  <2>3. \/ lfEmpty' = lfEmpty + 1 /\ wpc' = "finish"
        \/ lfEmpty' = lfEmpty /\ wpc' = "write"
    BY <1>15 DEF WriterDequeue
  <2>4. BufferTypes'
    BY <2>1, <2>2, <2>3 DEF BufferInv, BufferTypes
  <2>5. BuffersConserved'
    BY <2>1, <2>2, <2>3 DEF BufferInv, BufferTypes, BuffersConserved
  <2> QED
    BY <2>4, <2>5 DEF BufferInv
<1>16. CASE WriterWrite
  <2>1. Len(lfFilled) \in Nat
    BY DEF BufferInv, BufferTypes
  <2>2. /\ wpc = "write" /\ wpc' # "write" /\ lfEmpty' = lfEmpty + 1
        /\ UNCHANGED <<lfFilled, snFilled, snEmpty, outputBuffer, out, sections>>
    BY <1>16 DEF WriterWrite, outVars
  <2>3. BufferTypes'
    BY <2>2 DEF BufferInv, BufferTypes
  <2>4. BuffersConserved'
    BY <2>1, <2>2 DEF BufferInv, BufferTypes, BuffersConserved
  <2> QED
    BY <2>3, <2>4 DEF BufferInv
<1>17. CASE SnoopTake
  BY <1>17 DEF SnoopTake, BufferInv, BufferTypes, BuffersConserved, lfVars,
     writerVars
<1>18. CASE Trigger \/ LinkLost
  BY <1>18, SameBuffers DEF Trigger, LinkLost, writerVars
<1> QED
  BY <1>1, <1>2, <1>3, <1>4, <1>5, <1>6, <1>7, <1>8, <1>9, <1>10, <1>11, <1>12,
     <1>13, <1>14, <1>15, <1>16, <1>17, <1>18
     DEF Next, LoopNext, ReaderNext, WriterNext, Environment

\* outputBuffer_ is never used by the worker thread and the asynchronous
\* reader of startReadout() and terminateReadout() at the same time.
THEOREM OneReaderTheorem == Spec => []OneReader
<1>1. Spec => []ThreadInv
  BY ThreadInit, ThreadStep, PTL DEF Spec
<1>2. ThreadInv => OneReader
  BY DEF ThreadInv
<1> QED
  BY <1>1, <1>2, PTL

\* No buffer of the listfile queues and of the snoop queues is ever lost or
\* duplicated, with any number of buffers and whatever fails.
THEOREM BufferTheorem == Spec => []BuffersConserved
<1>1. Init => ThreadInv /\ BufferInv
  BY ThreadInit, BufferInit
<1>2. ThreadInv /\ BufferInv /\ [Next]_vars => ThreadInv' /\ BufferInv'
  BY ThreadStep, BufferStep
<1>3. BufferInv => BuffersConserved
  BY DEF BufferInv
<1> QED
  BY <1>1, <1>2, <1>3, PTL DEF Spec

-----------------------------------------------------------------------------
(* What a step may do to the run being recorded.  The invariants below are *)
(* shown to be kept by each of these kinds of steps.                       *)

\* Where the worker thread is before it has started a writer thread.
BeforePcs == {"none", "exited", "Redirect", "Abort", "AbortDesired", "Spawn"}

\* Where maybePutBackSnoopBuffer() has emptied the output buffer.
DroppedPcs == {"IfSentinel", "Sentinel", "Join", "Joined"}

Numbered(b, k) == \A i \in 1..Len(b) : b[i].n = k + i

\* The worker thread is where it writes to, or flushes, the output buffer.
Busy == lpc \notin NoWriterPcs \cup DroppedPcs \cup {"PutBack", "SetRunning"}

QuietMove ==
    /\ lpc \in NoWriterPcs => lpc' \in NoWriterPcs
    /\ lpc' \in NoWriterPcs => lpc \in NoWriterPcs \/ wpc = "done"
    /\ lpc = "Join" => lpc' = "Join" \/ (lpc' = "Joined" /\ wpc = "done")
    /\ lpc' = "Join" => lpc \in {"Join", "IfSentinel"}
    /\ lpc' \in {"SetIdle", "DesireIdle"} => lpc \in {"SetIdle", "DesireIdle"}
    /\ lpc' \in BeforePcs => lpc \in BeforePcs \cup {"DesireIdle"}
    /\ lpc = "SetRunning" =>
         lpc' = "SetRunning" \/ (WriterStartsFirst => wpc # "created")
    /\ lpc' \in DroppedPcs <=> lpc \in DroppedPcs
    /\ lpc' = "PutBack" =>
         lpc = "PutBack" \/ (lpc = "IfFlush" /\ writerState # "Running")

QuietStep ==
    /\ QuietMove
    /\ UNCHANGED <<writerVars, lfFilled, out, sections, fileVars>>

FacadeStep ==
    /\ \/ listfile' = listfile
       \/ \E x \in Section : x.n = 0 /\ listfile' = Append(listfile, x)
    /\ UNCHANGED <<lpc, writerVars, lfFilled, out, sections, lfh>>

WriteStep ==
    /\ Busy /\ lpc' \notin NoWriterPcs \cup DroppedPcs \cup {"PutBack"}
    /\ \E new \in Seq(Section) : /\ Numbered(new, sections)
                                 /\ out' = out \o new
                                 /\ sections' = sections + Len(new)
    /\ UNCHANGED <<writerVars, lfFilled, fileVars>>

FlushStep ==
    /\ Busy /\ lpc' \notin NoWriterPcs \cup DroppedPcs
    /\ out' = <<>>
    /\ lfFilled' = IF out = <<>> THEN lfFilled ELSE Append(lfFilled, out)
    /\ UNCHANGED <<writerVars, sections, fileVars>>

\* Sections are numbered from the number of those there are.
LEMMA SomeNumbered ==
  ASSUME NEW kind \in Kinds, NEW k \in Nat, sections \in Nat
  PROVE  /\ Some(kind, k) \in Seq(Section)
         /\ Numbered(Some(kind, k), sections)
         /\ Numbered(<<>>, sections)
  <1>1. Some(kind, k) \in Seq(Section) /\ Len(Some(kind, k)) = k
    BY SomeType
  <1>2. \A i \in 1..k : Some(kind, k)[i].n = sections + i
    BY DEF Some
  <1> QED
    BY <1>1, <1>2 DEF Numbered

\* A write to the output buffer in its place.
LEMMA IsWriteStep ==
  ASSUME sections \in Nat, NEW new, Write(new),
         new = <<>> \/ \E kind \in Kinds : \E k \in Nat : new = Some(kind, k),
         Busy, lpc' \notin NoWriterPcs \cup DroppedPcs \cup {"PutBack"},
         UNCHANGED <<writerVars, lfVars, fileVars>>
  PROVE  WriteStep
  <1>1. new \in Seq(Section) /\ Numbered(new, sections)
    <2>1. CASE new = <<>>
      BY <2>1 DEF Numbered
    <2>2. CASE \E kind \in Kinds : \E k \in Nat : new = Some(kind, k)
      BY <2>2, SomeNumbered
    <2> QED
      BY <2>1, <2>2
  <1>2. out' = out \o new /\ sections' = sections + Len(new)
    BY DEF Write
  <1> QED
    BY <1>1, <1>2 DEF WriteStep, lfVars

\* A flush of the output buffer in its place.
LEMMA IsFlushStep ==
  ASSUME flushCurrentOutputBuffer,
         Busy, lpc' \notin NoWriterPcs \cup DroppedPcs,
         UNCHANGED <<writerVars, fileVars>>
  PROVE  FlushStep
  BY DEF flushCurrentOutputBuffer, FlushStep, lfVars, outVars

\* Every step is one of these.
LEMMA StepKinds ==
  ASSUME ThreadInv, BufferInv, [Next]_vars
  PROVE  /\ options' = options
         /\ \/ QuietStep \/ FacadeStep \/ LoopSpawn \/ WriteStep \/ FlushStep
            \/ maybePutBackSnoopBuffer \/ StopSentinel \/ StopRelease \/ WriterNext
<1>o. options' = options
  BY DEF Next, vars
<1>n. sections \in Nat
  BY DEF BufferInv, BufferTypes
<1> USE DEF NoWriterPcs, DroppedPcs, BeforePcs
<1>1. CASE UNCHANGED vars
  <2>1. UNCHANGED <<lpc, writerVars, lfFilled, out, sections, fileVars>>
    BY <1>1 DEF vars, loopVars, lfVars, outVars
  <2> QED
    BY <2>1, <1>o DEF QuietStep, QuietMove
<1>2. CASE FacadeStart \/ FacadeStopped
  <2>1. [kind |-> "Preamble", n |-> 0] \in Section /\ [kind |-> "EndOfFile", n |-> 0] \in Section
    BY DEF Section, Kinds
  <2>2. UNCHANGED <<lpc, writerVars, lfFilled, out, sections, lfh>>
    BY <1>2 DEF FacadeStart, FacadeStopped, loopVars, lfVars, outVars
  <2>3. \/ listfile' = listfile
        \/ listfile' = Append(listfile, [kind |-> "Preamble", n |-> 0])
        \/ listfile' = Append(listfile, [kind |-> "EndOfFile", n |-> 0])
    BY <1>2 DEF FacadeStart, FacadeStopped
  <2> QED
    BY <2>1, <2>2, <2>3, <1>o DEF FacadeStep
<1>3. CASE UserStart \/ UserStartDesired \/ UserStartJoin \/ UserFuture \/ UserStop
           \/ UserPause \/ UserResume \/ UserDesire \/ FacadeDestroy
  <2>1. UNCHANGED <<writerVars, lfFilled, out, sections, fileVars>>
    BY <1>3 DEF UserStart, UserStartDesired, UserStartJoin, UserFuture, UserStop,
       UserPause, UserResume, Check, UserDesire, FacadeDestroy, lfVars, outVars
  <2>2. lpc' = lpc \/ (lpc \in {"none", "exited"} /\ lpc' = "Redirect")
    BY <1>3 DEF UserStart, UserStartDesired, UserStartJoin, UserFuture, UserStop,
       UserPause, UserResume, Check, UserDesire, FacadeDestroy, loopVars
  <2> QED
    BY <2>1, <2>2, <1>o DEF QuietStep, QuietMove
<1>4. CASE LoopRedirect \/ LoopAbort
  <2>1. UNCHANGED <<writerVars, lfFilled, out, sections, fileVars>>
        /\ lpc \in BeforePcs /\ lpc' \in BeforePcs
    BY <1>4 DEF LoopRedirect, LoopAbort, SetState, SetDesired, lfVars, outVars
  <2> QED
    BY <2>1, <1>o DEF QuietStep, QuietMove
<1>5. CASE LoopSetRunning
  <2>1. /\ UNCHANGED <<writerVars, lfFilled, out, sections, fileVars>>
        /\ \/ lpc = "SetRunning" /\ (WriterStartsFirst => wpc # "created")
              /\ lpc' = "DesireRunning"
           \/ lpc = "DesireRunning" /\ lpc' = "StartSpawn"
    BY <1>5 DEF LoopSetRunning, SetState, SetDesired, lfVars, outVars
  <2> QED
    BY <2>1, <1>o DEF QuietStep, QuietMove
<1>6. CASE startReadout
  <2>1. UNCHANGED <<writerVars, lfFilled, out, sections, fileVars>>
    BY <1>6 DEF startReadout, SpawnReader, StartTriggers, McstCommands, DaqMode,
       QuitReader, JoinReader, lfVars, outVars
  <2>2. Busy /\ lpc' \notin NoWriterPcs \cup DroppedPcs \cup {"PutBack", "SetRunning"}
    BY <1>6 DEF startReadout, SpawnReader, StartTriggers, McstCommands, DaqMode,
       QuitReader, JoinReader, Busy
  <2> QED
    BY <2>1, <2>2, <1>o DEF QuietStep, QuietMove, Busy
<1>7. CASE terminateReadout
  <2>1. UNCHANGED <<writerVars, lfFilled, out, sections, fileVars>>
    BY <1>7 DEF terminateReadout, SpawnReader, McstCommands, DaqMode,
       QuitReader, JoinReader, lfVars, outVars
  <2>2. Busy /\ lpc' \notin NoWriterPcs \cup DroppedPcs \cup {"PutBack", "SetRunning"}
    BY <1>7 DEF terminateReadout, SpawnReader, McstCommands, DaqMode,
       QuitReader, JoinReader, Busy
  <2> QED
    BY <2>1, <2>2, <1>o DEF QuietStep, QuietMove, Busy
<1>8. CASE LoopStarted \/ LoopCheck \/ LoopTerminated \/ LoopEnd
  <2>1. UNCHANGED <<writerVars, lfFilled, out, sections, fileVars>>
    BY <1>8 DEF LoopStarted, LoopCheck, LoopTerminated, LoopEnd, lfVars, outVars
  <2>2. Busy /\ lpc' \notin NoWriterPcs \cup DroppedPcs \cup {"PutBack", "SetRunning"}
    BY <1>8 DEF LoopStarted, LoopCheck, LoopTerminated, LoopEnd, Begin, Busy
  <2> QED
    BY <2>1, <2>2, <1>o DEF QuietStep, QuietMove, Busy
<1>9. CASE LoopPlugins
  <2>1. (Write(<<>>) \/ Write(Some("Tick", 1))) /\ lpc = "Plugins"
        /\ lpc' \in {"SetStopping", "Check"} /\ UNCHANGED <<writerVars, lfVars, fileVars>>
    BY <1>9 DEF LoopPlugins, Begin
  <2> QED
    BY <2>1, <1>n, <1>o, IsWriteStep DEF Kinds, Busy
<1>10. CASE LoopReadout \/ ReaderRead
  <2>1. PICK k \in Nat : Write(Some("Data", k))
    BY <1>10 DEF LoopReadout, ReaderRead, Read
  <2>2. Busy /\ lpc' \notin NoWriterPcs \cup DroppedPcs \cup {"PutBack"}
        /\ UNCHANGED <<writerVars, lfVars, fileVars>>
    BY <1>10 DEF LoopReadout, ReaderRead, loopVars, Busy, ThreadInv, OneReader,
       ReaderPcs
  <2> QED
    BY <2>1, <2>2, <1>n, <1>o, IsWriteStep DEF Kinds
<1>11. CASE LoopReadoutFlush \/ ReaderFlush
  <2>1. flushCurrentOutputBuffer /\ UNCHANGED <<writerVars, fileVars>>
    BY <1>11 DEF LoopReadoutFlush, ReaderFlush
  <2>2. Busy /\ lpc' \notin NoWriterPcs \cup DroppedPcs
    BY <1>11 DEF LoopReadoutFlush, ReaderFlush, Begin, loopVars, Busy, ThreadInv,
       OneReader, ReaderPcs
  <2> QED
    BY <2>1, <2>2, <1>o, IsFlushStep
<1>12. ASSUME NEW from, NEW kind \in Kinds, NEW to,
              PauseResumeSection(from, kind, to),
              from \notin NoWriterPcs \cup DroppedPcs \cup {"PutBack", "SetRunning"},
              to \notin NoWriterPcs \cup DroppedPcs \cup {"PutBack"}
       PROVE  WriteStep
  <2>1. Write(Some(kind, 1)) /\ UNCHANGED <<writerVars, lfVars, fileVars>>
        /\ lpc = from /\ lpc' = to
    BY <1>12 DEF PauseResumeSection
  <2> QED
    BY <2>1, <1>12, <1>n, IsWriteStep DEF Busy
<1>13. ASSUME NEW from, NEW to, LoopFlush(from, to),
              from \notin NoWriterPcs \cup DroppedPcs \cup {"PutBack", "SetRunning"},
              to \notin NoWriterPcs \cup DroppedPcs
       PROVE  FlushStep
  <2>1. flushCurrentOutputBuffer /\ UNCHANGED <<writerVars, fileVars>>
        /\ lpc = from /\ lpc' = to
    BY <1>13 DEF LoopFlush
  <2> QED
    BY <2>1, <1>13, IsFlushStep DEF Busy
<1>14. ASSUME NEW from, NEW target, NEW to,
              SetState(from, target, to) \/ SetDesired(from, target, to),
              \/ /\ from \notin NoWriterPcs \cup DroppedPcs \cup {"PutBack", "SetRunning"}
                 /\ to \notin NoWriterPcs \cup DroppedPcs \cup {"PutBack"}
              \/ from = "SetIdle" /\ to = "DesireIdle"
              \/ from = "DesireIdle" /\ to = "exited"
       PROVE  QuietStep
  <2>1. UNCHANGED <<writerVars, lfFilled, out, sections, fileVars>>
        /\ lpc = from /\ lpc' = to
    BY <1>14 DEF SetState, SetDesired, lfVars, outVars
  <2> QED
    BY <2>1, <1>14 DEF QuietStep, QuietMove
<1>15. CASE LoopPause
  BY <1>15, <1>12, <1>13, <1>14, <1>o DEF LoopPause, Kinds
<1>16. CASE LoopResume
  BY <1>16, <1>12, <1>13, <1>14, <1>o DEF LoopResume, Kinds
<1>17. CASE LoopStop
  <2>1. CASE IfWriterRunning("IfFlush", "StopFlush", "PutBack")
             \/ IfWriterRunning("IfSentinel", "Sentinel", "Join") \/ StopJoin
    <3>1. UNCHANGED <<writerVars, lfFilled, out, sections, fileVars>>
      BY <2>1 DEF IfWriterRunning, StopJoin, lfVars, outVars
    <3>2. \/ lpc = "IfFlush" /\ lpc' = "StopFlush"
          \/ lpc = "IfFlush" /\ lpc' = "PutBack" /\ writerState # "Running"
          \/ lpc = "IfSentinel" /\ lpc' \in {"Sentinel", "Join"}
          \/ lpc = "Join" /\ wpc = "done" /\ lpc' = "Joined"
      BY <2>1 DEF IfWriterRunning, StopJoin
    <3> QED
      BY <3>1, <3>2, <1>o DEF QuietStep, QuietMove
  <2> QED
    BY <1>17, <2>1, <1>12, <1>13, <1>14, <1>o DEF LoopStop, Kinds
<1>18. CASE ReaderLoad \/ Environment
  <2>1. UNCHANGED <<lpc, writerVars, lfFilled, out, sections, fileVars>>
    BY <1>18 DEF ReaderLoad, Environment, SnoopTake, Trigger, LinkLost, loopVars,
       lfVars, outVars
  <2> QED
    BY <2>1, <1>o DEF QuietStep, QuietMove
<1> QED
  BY <1>1, <1>2, <1>3, <1>4, <1>5, <1>6, <1>7, <1>8, <1>9, <1>10, <1>11, <1>15,
     <1>16, <1>17, <1>18, <1>o DEF Next, UserNext, LoopNext, ReaderNext

-----------------------------------------------------------------------------
(* The writer thread, the run it belongs to, and what it leaves behind.    *)

\* The writer thread's variables go with its place; the error is set on the
\* way out only.
WriterInv ==
    /\ ~WriteMayFail => ~eptr /\ wpc # "throw"
    /\ eptr => wpc \in {"finish", "done"}
    /\ wpc # "write" => wbuf = <<>>
    /\ writerState = "Running" <=> wpc \in {"dequeue", "write", "throw", "finish"}
    /\ WriterStartsFirst /\ lpc # "SetRunning" => wpc # "created"

\* The worker gives up the listfile at the end of its first run: while it has
\* it, nothing of an earlier run is left.
FreshInv ==
    /\ lpc \in {"SetIdle", "DesireIdle"} => ~lfh
    /\ lfh /\ lpc \in BeforePcs =>
         sections = 0 /\ out = <<>> /\ lfFilled = <<>> /\ wpc = "none" /\ ~eptr

\* The writer records, and has not met an error.
Recording == lfh /\ ~eptr /\ wpc # "throw"

\* The writer has not met an error, unless in an earlier run.
Good == ~WriteMayFail \/ Recording

\* Such a writer ends on the sentinel only.  The sentinel is the last buffer
\* queued, and it is there only while the writer is being joined: a writer that
\* has ended leaves nothing behind in the filled queue.
SentinelLast ==
    \A i \in 1..Len(lfFilled) :
        lfFilled[i] = <<>> => i = Len(lfFilled) /\ lpc = "Join"
NothingLeft ==
    wpc \in {"none", "finish", "done"} =>
        lfFilled = <<>> /\ lpc \in NoWriterPcs \cup {"Join"}
ReturnInv == Good => SentinelLast /\ NothingLeft

\* What is dropped at the end of a run has been flushed before, if the writer
\* was running.
OutInv ==
    /\ lpc \in DroppedPcs => out = <<>>
    /\ lpc = "PutBack" /\ WriterStartsFirst /\ Recording => out = <<>>

RunInv == WriterInv /\ FreshInv /\ ReturnInv /\ OutInv

\* Initially there is no writer and nothing is queued.
LEMMA RunInit == Init => RunInv
  BY DEF Init, RunInv, WriterInv, FreshInv, ReturnInv, SentinelLast, NothingLeft,
     OutInv, NoWriterPcs, DroppedPcs

\* The options do not change.
LEMMA SameOptions ==
  ASSUME options' = options
  PROVE  /\ WriteMayFail' = WriteMayFail
         /\ WriterStartsFirst' = WriterStartsFirst
  BY DEF WriteMayFail, WriterStartsFirst

\* Every step keeps WriterInv.
LEMMA WriterStep ==
  ThreadInv /\ BufferInv /\ WriterInv /\ [Next]_vars => WriterInv'
<1> SUFFICES ASSUME ThreadInv, BufferInv, WriterInv, [Next]_vars PROVE WriterInv'
  OBVIOUS
<1>o. options' = options
  BY StepKinds
<1>w. WriteMayFail' = WriteMayFail /\ WriterStartsFirst' = WriterStartsFirst
  BY <1>o, SameOptions
<1>1. CASE QuietStep \/ FacadeStep \/ WriteStep \/ FlushStep
           \/ maybePutBackSnoopBuffer \/ StopSentinel \/ StopRelease
  <2>1. UNCHANGED <<wpc, writerState, eptr, wbuf>>
    BY <1>1 DEF QuietStep, FacadeStep, WriteStep, FlushStep,
       maybePutBackSnoopBuffer, StopSentinel, StopRelease, writerVars
  <2>2. \/ lpc # "SetRunning" \/ lpc' = "SetRunning"
        \/ WriterStartsFirst => wpc # "created"
    BY <1>1 DEF QuietStep, QuietMove, FacadeStep, WriteStep, FlushStep, Busy,
       maybePutBackSnoopBuffer, StopSentinel, StopRelease
  <2> QED
    BY <2>1, <2>2, <1>w DEF WriterInv
<1>2. CASE LoopSpawn
  <2>1. /\ wpc' = "created" /\ writerState' = "Idle" /\ eptr' = FALSE
        /\ wbuf' = <<>> /\ lpc' = "SetRunning"
    BY <1>2 DEF LoopSpawn
  <2> QED
    BY <2>1 DEF WriterInv
<1>3. CASE WriterStart
  <2>1. /\ wpc = "created" /\ wpc' = "dequeue" /\ writerState' = "Running"
        /\ UNCHANGED <<lpc, eptr, wbuf>>
    BY <1>3 DEF WriterStart, loopVars
  <2> QED
    BY <2>1, <1>w DEF WriterInv
<1>4. CASE WriterDequeue
  <2>1. /\ wpc = "dequeue" /\ UNCHANGED <<lpc, eptr, writerState>>
        /\ \/ wpc' = "finish" /\ wbuf' = wbuf
           \/ wpc' = "write"
    BY <1>4 DEF WriterDequeue, loopVars
  <2> QED
    BY <2>1, <1>w DEF WriterInv
<1>5. CASE WriterWrite
  <2>1. /\ wpc = "write" /\ UNCHANGED <<lpc, eptr, writerState>> /\ wbuf' = <<>>
        /\ wpc' = "dequeue" \/ (wpc' = "throw" /\ WriteMayFail)
    BY <1>5 DEF WriterWrite, loopVars
  <2> QED
    BY <2>1, <1>w DEF WriterInv
<1>6. CASE WriterThrow
  <2>1. /\ wpc = "throw" /\ UNCHANGED <<lpc, writerState, wbuf>>
        /\ wpc' = "finish"
    BY <1>6 DEF WriterThrow, loopVars
  <2> QED
    BY <2>1, <1>w DEF WriterInv
<1>7. CASE WriterFinish
  <2>1. /\ wpc = "finish" /\ UNCHANGED <<lpc, eptr, wbuf>>
        /\ wpc' = "done" /\ writerState' = "Idle"
    BY <1>7 DEF WriterFinish, loopVars
  <2> QED
    BY <2>1, <1>w DEF WriterInv
<1> QED
  BY <1>1, <1>2, <1>3, <1>4, <1>5, <1>6, <1>7, StepKinds DEF WriterNext

\* Every step keeps FreshInv.
LEMMA FreshStep ==
  ThreadInv /\ BufferInv /\ WriterInv /\ FreshInv /\ [Next]_vars => FreshInv'
<1> SUFFICES ASSUME ThreadInv, BufferInv, WriterInv, FreshInv, [Next]_vars
             PROVE  FreshInv'
  OBVIOUS
<1> USE DEF BeforePcs
<1>1. CASE QuietStep \/ FacadeStep
  <2>1. /\ UNCHANGED <<lfh, sections, out, lfFilled, wpc, eptr>>
        /\ lpc' \in {"SetIdle", "DesireIdle"} => lpc \in {"SetIdle", "DesireIdle"}
        /\ lpc' \in BeforePcs => lpc \in BeforePcs \cup {"DesireIdle"}
    BY <1>1 DEF QuietStep, QuietMove, FacadeStep, writerVars, fileVars
  <2> QED
    BY <2>1 DEF FreshInv
<1>2. CASE LoopSpawn \/ maybePutBackSnoopBuffer \/ StopSentinel
  <2>1. lpc' \in {"SetRunning", "IfSentinel", "Join"}
    BY <1>2 DEF LoopSpawn, maybePutBackSnoopBuffer, StopSentinel
  <2> QED
    BY <2>1 DEF FreshInv
<1>3. CASE WriteStep \/ FlushStep
  <2>1. lpc' \notin BeforePcs \cup {"SetIdle", "DesireIdle"}
    BY <1>3 DEF WriteStep, FlushStep, NoWriterPcs
  <2> QED
    BY <2>1 DEF FreshInv
<1>4. CASE StopRelease
  <2>1. ~lfh'
    BY <1>4 DEF StopRelease
  <2> QED
    BY <2>1 DEF FreshInv
<1>5. CASE WriterNext
  <2>1. lpc' = lpc /\ lfh' = lfh /\ wpc # "none"
    BY <1>5 DEF WriterNext, WriterStart, WriterDequeue, WriterWrite, WriterThrow,
       WriterFinish, loopVars, fileVars
  <2> QED
    BY <2>1 DEF FreshInv
<1> QED
  BY <1>1, <1>2, <1>3, <1>4, <1>5, StepKinds

\* Only a new run makes the writer good again.
LEMMA GoodBefore ==
  ASSUME ThreadInv, BufferInv, WriterInv, [Next]_vars, ~LoopSpawn
  PROVE  (Good' => Good) /\ (Recording' => Recording)
<1>1. WriteMayFail' = WriteMayFail
  BY StepKinds, SameOptions
<1>2. /\ lfh' => lfh
      /\ ~eptr' => ~eptr
      /\ wpc = "throw" => wpc' = "throw" \/ eptr'
  <2>1. CASE QuietStep \/ FacadeStep \/ WriteStep \/ FlushStep
             \/ maybePutBackSnoopBuffer \/ StopSentinel \/ StopRelease
    BY <2>1 DEF QuietStep, FacadeStep, WriteStep, FlushStep,
       maybePutBackSnoopBuffer, StopSentinel, StopRelease, writerVars, fileVars
  <2>2. CASE WriterNext
    BY <2>2 DEF WriterNext, WriterStart, WriterDequeue, WriterWrite, WriterThrow,
       WriterFinish, fileVars
  <2> QED
    BY <2>1, <2>2, StepKinds
<1> QED
  BY <1>1, <1>2 DEF Good, Recording

\* Every step keeps ReturnInv.
LEMMA ReturnStep ==
  ThreadInv /\ BufferInv /\ WriterInv /\ FreshInv /\ ReturnInv /\ [Next]_vars
  => ReturnInv'
<1> SUFFICES ASSUME ThreadInv, BufferInv, WriterInv, FreshInv, ReturnInv,
                    [Next]_vars, Good'
             PROVE  SentinelLast' /\ NothingLeft'
  BY DEF ReturnInv
<1>q. lfFilled \in Seq(Seq(Section)) /\ Len(lfFilled) \in Nat
  BY DEF BufferInv, BufferTypes
<1>2. CASE LoopSpawn
  <2>1. lpc = "Spawn" /\ wpc' = "created" /\ UNCHANGED <<lfFilled, lfh>>
    BY <1>2 DEF LoopSpawn, lfVars, fileVars
  <2>2. WriteMayFail' = WriteMayFail
    BY StepKinds, SameOptions
  <2>3. lfFilled = <<>>
    <3>1. CASE lfh
      BY <3>1, <2>1 DEF FreshInv, BeforePcs
    <3>2. CASE ~lfh
      <4>1. Good
        BY <3>2, <2>1, <2>2 DEF Good, Recording
      <4> QED
        BY <4>1, <2>1 DEF ThreadInv, ReturnInv, NothingLeft, NoWriterPcs
    <3> QED
      BY <3>1, <3>2
  <2> QED
    BY <2>1, <2>3 DEF SentinelLast, NothingLeft
<1>g. CASE ~LoopSpawn
  <2>g. Good /\ SentinelLast /\ NothingLeft
    BY <1>g, GoodBefore DEF ReturnInv
  <2>1. CASE QuietStep \/ FacadeStep \/ WriteStep \/ maybePutBackSnoopBuffer
             \/ StopRelease
    <3>1. UNCHANGED <<lfFilled, wpc>>
      BY <2>1 DEF QuietStep, FacadeStep, WriteStep, maybePutBackSnoopBuffer,
         StopRelease, lfVars, writerVars
    <3>2. /\ lpc \in NoWriterPcs => lpc' \in NoWriterPcs
          /\ lpc = "Join" => lpc' = "Join" \/ (lpc' = "Joined" /\ wpc = "done")
      BY <2>1 DEF QuietStep, QuietMove, FacadeStep, WriteStep, Busy,
         maybePutBackSnoopBuffer, StopRelease, NoWriterPcs, DroppedPcs
    <3>3. SentinelLast'
      <4>1. CASE lpc = "Join" /\ lpc' # "Join"
        <5>1. lfFilled' = <<>>
          BY <4>1, <3>1, <3>2, <2>g DEF NothingLeft
        <5> QED
          BY <5>1 DEF SentinelLast
      <4>2. CASE ~(lpc = "Join" /\ lpc' # "Join")
        BY <4>2, <3>1, <2>g DEF SentinelLast
      <4> QED
        BY <4>1, <4>2
    <3>4. NothingLeft'
      BY <3>1, <3>2, <2>g DEF NothingLeft, NoWriterPcs
    <3> QED
      BY <3>3, <3>4
  <2>2. CASE FlushStep
    <3>1. lpc \notin NoWriterPcs \cup {"Join"} /\ wpc' = wpc
      BY <2>2 DEF FlushStep, Busy, DroppedPcs, writerVars
    <3>2. wpc' \notin {"none", "finish", "done"}
      BY <3>1, <2>g DEF NothingLeft
    <3>3. \A i \in 1..Len(lfFilled) : lfFilled[i] # <<>>
      BY <3>1, <2>g DEF SentinelLast
    <3>4. \A i \in 1..Len(lfFilled') : lfFilled'[i] # <<>>
      <4>1. CASE out = <<>>
        BY <4>1, <3>3, <2>2 DEF FlushStep
      <4>2. CASE out # <<>>
        <5>1. lfFilled' = Append(lfFilled, out) /\ out \in Seq(Section)
          BY <4>2, <2>2 DEF FlushStep, BufferInv, BufferTypes
        <5> QED
          BY <5>1, <4>2, <3>3, <1>q
      <4> QED
        BY <4>1, <4>2
    <3> QED
      BY <3>2, <3>4 DEF SentinelLast, NothingLeft
  <2>3. CASE StopSentinel
    <3>1. /\ lpc = "Sentinel" /\ lpc' = "Join" /\ wpc' = wpc
          /\ lfFilled' = Append(lfFilled, <<>>)
      BY <2>3 DEF StopSentinel, writerVars
    <3>2. \A i \in 1..Len(lfFilled) : lfFilled[i] # <<>>
      BY <3>1, <2>g DEF SentinelLast
    <3>3. \A i \in 1..Len(lfFilled') : lfFilled'[i] = <<>> => i = Len(lfFilled')
      BY <3>1, <3>2, <1>q
    <3>4. wpc \notin {"none", "finish", "done"}
      BY <3>1, <2>g DEF NothingLeft, NoWriterPcs
    <3> QED
      BY <3>1, <3>3, <3>4 DEF SentinelLast, NothingLeft
  <2>4. CASE WriterStart \/ WriterWrite
    <3>1. wpc' \in {"dequeue", "throw"} /\ lfFilled' = lfFilled /\ lpc' = lpc
      BY <2>4 DEF WriterStart, WriterWrite, loopVars, lfVars
    <3> QED
      BY <3>1, <2>g DEF SentinelLast, NothingLeft
  <2>5. CASE WriterDequeue
    <3>1. /\ lfFilled # <<>> /\ lfFilled' = Tail(lfFilled) /\ lpc' = lpc
          /\ IF lfFilled[1] = <<>> THEN wpc' = "finish" ELSE wpc' = "write"
      BY <2>5, <1>q DEF WriterDequeue, loopVars
    <3>2. /\ Len(lfFilled') = Len(lfFilled) - 1 /\ 1 \in 1..Len(lfFilled)
          /\ \A i \in 1..Len(lfFilled') :
               lfFilled'[i] = lfFilled[i + 1] /\ i + 1 \in 1..Len(lfFilled)
      BY <3>1, <1>q
    <3>3. SentinelLast'
      <4> SUFFICES ASSUME NEW i \in 1..Len(lfFilled'), lfFilled'[i] = <<>>
                   PROVE  i = Len(lfFilled') /\ lpc' = "Join"
        BY DEF SentinelLast
      <4>1. i + 1 = Len(lfFilled) /\ lpc = "Join"
        BY <3>2, <2>g DEF SentinelLast
      <4> QED
        BY <4>1, <3>1, <3>2, <1>q
    <3>4. NothingLeft'
      <4>1. CASE lfFilled[1] = <<>>
        <5>1. Len(lfFilled) = 1 /\ lpc = "Join"
          BY <3>2, <4>1, <2>g DEF SentinelLast
        <5>2. lfFilled' \in Seq(Seq(Section)) /\ Len(lfFilled') = 0
          BY <5>1, <3>1, <3>2, <1>q, QueueType
        <5>3. lfFilled' = <<>>
          BY <5>2
        <5> QED
          BY <5>1, <5>3, <3>1 DEF NothingLeft
      <4>2. CASE lfFilled[1] # <<>>
        BY <3>1, <4>2 DEF NothingLeft
      <4> QED
        BY <4>1, <4>2
    <3> QED
      BY <3>3, <3>4
  <2>6. CASE WriterThrow
    <3>1. wpc = "throw" /\ eptr' = TRUE
      BY <2>6 DEF WriterThrow
    <3>2. WriteMayFail
      BY <3>1 DEF WriterInv
    <3>3. WriteMayFail' = WriteMayFail
      BY StepKinds, SameOptions
    <3> QED
      BY <3>1, <3>2, <3>3 DEF Good, Recording
  <2>7. CASE WriterFinish
    <3>1. wpc = "finish" /\ wpc' = "done" /\ lfFilled' = lfFilled /\ lpc' = lpc
      BY <2>7 DEF WriterFinish, loopVars, lfVars
    <3> QED
      BY <3>1, <2>g DEF SentinelLast, NothingLeft
  <2> QED
    BY <1>g, <2>1, <2>2, <2>3, <2>4, <2>5, <2>6, <2>7, StepKinds DEF WriterNext
<1> QED
  BY <1>2, <1>g

\* Every step keeps OutInv.
LEMMA OutStep ==
  ControlTypes /\ ThreadInv /\ BufferInv /\ RunInv /\ [Next]_vars => OutInv'
<1> SUFFICES ASSUME ControlTypes, ThreadInv, BufferInv, RunInv, [Next]_vars
             PROVE  OutInv'
  OBVIOUS
<1>o. WriterStartsFirst' = WriterStartsFirst
  BY StepKinds, SameOptions
<1> USE DEF DroppedPcs
<1>1. CASE QuietStep
  <2>1. /\ out' = out /\ UNCHANGED <<lfh, eptr, wpc, writerState>>
        /\ lpc' \in DroppedPcs <=> lpc \in DroppedPcs
        /\ lpc' = "PutBack" =>
             lpc = "PutBack" \/ (lpc = "IfFlush" /\ writerState # "Running")
    BY <1>1 DEF QuietStep, QuietMove, writerVars, fileVars
  <2>2. ASSUME lpc' = "PutBack", WriterStartsFirst', Recording'
        PROVE  out' = <<>>
    <3>1. Recording /\ WriterStartsFirst
      BY <2>1, <2>2, <1>o DEF Recording
    <3>2. CASE lpc = "PutBack"
      BY <3>1, <3>2, <2>1 DEF RunInv, OutInv
    <3>3. CASE lpc = "IfFlush" /\ writerState # "Running"
      <4>1. wpc \notin {"none", "finish", "done"}
        BY <3>1, <3>3 DEF RunInv, ReturnInv, NothingLeft, Good, NoWriterPcs
      <4>2. wpc \notin {"throw", "created", "dequeue", "write"}
        BY <3>1, <3>3 DEF RunInv, WriterInv, Recording
      <4> QED
        BY <4>1, <4>2 DEF ControlTypes
    <3> QED
      BY <3>2, <3>3, <2>1, <2>2
  <2> QED
    BY <2>1, <2>2 DEF RunInv, OutInv
<1>2. CASE FacadeStep
  <2>1. UNCHANGED <<lpc, out, lfh, eptr, wpc>>
    BY <1>2 DEF FacadeStep, writerVars
  <2> QED
    BY <2>1, <1>o DEF RunInv, OutInv, Recording
<1>3. CASE LoopSpawn \/ WriteStep
  <2>1. lpc' \notin DroppedPcs \cup {"PutBack"}
    BY <1>3 DEF LoopSpawn, WriteStep
  <2> QED
    BY <2>1 DEF OutInv
<1>4. CASE FlushStep \/ maybePutBackSnoopBuffer
  <2>1. out' = <<>>
    BY <1>4 DEF FlushStep, maybePutBackSnoopBuffer
  <2> QED
    BY <2>1 DEF OutInv
<1>5. CASE StopSentinel \/ StopRelease
  <2>1. lpc \in DroppedPcs /\ lpc' # "PutBack" /\ out' = out
    BY <1>5 DEF StopSentinel, StopRelease, outVars
  <2> QED
    BY <2>1 DEF RunInv, OutInv
<1>6. CASE WriterNext
  <2>1. lpc' = lpc /\ out' = out /\ ~LoopSpawn
    BY <1>6 DEF WriterNext, WriterStart, WriterDequeue, WriterWrite, WriterThrow,
       WriterFinish, loopVars, outVars, LoopSpawn
  <2>2. Recording' => Recording
    BY <2>1, GoodBefore DEF RunInv
  <2> QED
    BY <2>1, <2>2, <1>o DEF RunInv, OutInv
<1> QED
  BY <1>1, <1>2, <1>3, <1>4, <1>5, <1>6, StepKinds

\* RunInv is kept.
LEMMA RunStep ==
  ControlTypes /\ ThreadInv /\ BufferInv /\ RunInv /\ [Next]_vars => RunInv'
  BY WriterStep, FreshStep, ReturnStep, OutStep DEF RunInv

-----------------------------------------------------------------------------
(* The listfile: what is written, what the writer holds, what is queued and *)
(* what is in the output buffer are consecutive.                            *)

\* P[0] is the number of the last section the writer has taken, P[i] that of
\* the last section of the i-th queued buffer.
Chain(P) ==
    /\ \A i \in 1..Len(lfFilled) :
         Numbered(lfFilled[i], P[i - 1]) /\ P[i] = P[i - 1] + Len(lfFilled[i])
    /\ Numbered(out, P[Len(lfFilled)])
    /\ P[Len(lfFilled)] + Len(out) <= sections
    /\ WriterStartsFirst \/ lpc \notin DroppedPcs =>
         P[Len(lfFilled)] + Len(out) = sections

ChainFrom(n) ==
    /\ Numbered(wbuf, n)
    /\ \E P \in [0..Len(lfFilled) -> 0..sections] : P[0] = n + Len(wbuf) /\ Chain(P)

\* The listfile holds a prefix of what was produced, and as long as the writer
\* has met no error the chain goes on from there.
FileInv ==
    /\ FileTypes
    /\ \E n \in 0..sections : Recorded(n) /\ (Recording => ChainFrom(n))

\* Initially nothing is recorded and nothing under way.
LEMMA FileInit == Init => FileInv
<1> SUFFICES ASSUME Init PROVE FileInv
  OBVIOUS
<1>1. /\ wbuf = <<>> /\ lfFilled = <<>> /\ out = <<>> /\ listfile = <<>>
      /\ sections = 0 /\ lfh = HasListfile /\ options \in Options
  BY DEF Init
<1>2. FileTypes
  BY <1>1, OptionAssumption DEF FileTypes, HasListfile
<1>3. Recorded(0)
  BY <1>1 DEF Recorded
<1>4. ChainFrom(0)
  <2> DEFINE P == [i \in 0..0 |-> 0]
  <2>1. P \in [0..Len(lfFilled) -> 0..sections] /\ P[0] = 0 + Len(wbuf) /\ P[0] = 0
    BY <1>1
  <2>2. Chain(P)
    BY <1>1, <2>1 DEF Chain, Numbered
  <2>3. Numbered(wbuf, 0)
    BY <1>1 DEF Numbered
  <2> QED
    BY <2>1, <2>2, <2>3 DEF ChainFrom
<1> QED
  BY <1>1, <1>2, <1>3, <1>4 DEF FileInv

\* A section of the facade leaves the numbered ones alone.
LEMMA RecordedFacade ==
  ASSUME listfile \in Seq(Section), NEW n \in Nat, Recorded(n),
         NEW x \in Section, x.n = 0, listfile' = Append(listfile, x)
  PROVE  Recorded(n)'
<1>1. /\ Len(listfile) \in Nat /\ Len(listfile') = Len(listfile) + 1
      /\ DOMAIN listfile = 1..Len(listfile) /\ DOMAIN listfile' = 1..Len(listfile')
      /\ \A i \in 1..Len(listfile) : listfile'[i] = listfile[i]
      /\ listfile'[Len(listfile) + 1] = x
  OBVIOUS
<1>2. \A i \in DOMAIN listfile' : i \in DOMAIN listfile \/ listfile'[i].n = 0
  BY <1>1
<1>3. \A i \in DOMAIN listfile : i \in DOMAIN listfile' /\ listfile'[i] = listfile[i]
  BY <1>1
<1>4. \A i \in DOMAIN listfile' : listfile'[i].n <= n
  BY <1>2, <1>3 DEF Recorded
<1>5. \A k \in 1..n : \E i \in DOMAIN listfile' : listfile'[i].n = k
  BY <1>3 DEF Recorded
<1>6. \A i, j \in DOMAIN listfile' :
        i < j /\ listfile'[i].n > 0 /\ listfile'[j].n > 0
        => listfile'[i].n < listfile'[j].n
  <2> SUFFICES ASSUME NEW i \in DOMAIN listfile', NEW j \in DOMAIN listfile',
                      i < j, listfile'[i].n > 0, listfile'[j].n > 0
               PROVE  listfile'[i].n < listfile'[j].n
    OBVIOUS
  <2>1. i \in DOMAIN listfile /\ j \in DOMAIN listfile
    BY <1>2
  <2> QED
    BY <2>1, <1>3 DEF Recorded
<1> QED
  BY <1>4, <1>5, <1>6 DEF Recorded

\* The next sections may be appended.
LEMMA RecordedMore ==
  ASSUME listfile \in Seq(Section), wbuf \in Seq(Section), NEW n \in Nat,
         Recorded(n), Numbered(wbuf, n), NEW m \in Nat, m = n + Len(wbuf),
         listfile' = listfile \o wbuf
  PROVE  Recorded(m)'
<1>1. /\ Len(listfile) \in Nat /\ Len(wbuf) \in Nat
      /\ Len(listfile') = Len(listfile) + Len(wbuf)
      /\ DOMAIN listfile = 1..Len(listfile) /\ DOMAIN listfile' = 1..Len(listfile')
  OBVIOUS
<1>2. \A i \in 1..Len(listfile) : listfile'[i] = listfile[i] /\ i \in DOMAIN listfile'
  BY <1>1
<1>3. \A i \in 1..Len(wbuf) : /\ listfile'[Len(listfile) + i] = wbuf[i]
                              /\ Len(listfile) + i \in DOMAIN listfile'
  BY <1>1
<1>4. \A i \in 1..Len(wbuf) : listfile'[Len(listfile) + i].n = n + i
  BY <1>3 DEF Numbered
<1>5. \A i \in DOMAIN listfile' :
        \/ i \in 1..Len(listfile) /\ listfile'[i].n <= n
        \/ i > Len(listfile) /\ listfile'[i].n = n + (i - Len(listfile))
  <2> SUFFICES ASSUME NEW i \in DOMAIN listfile', ~(i \in 1..Len(listfile))
               PROVE  i > Len(listfile) /\ listfile'[i].n = n + (i - Len(listfile))
    BY <1>1, <1>2 DEF Recorded
  <2>1. i \in Nat /\ i > Len(listfile) /\ i - Len(listfile) \in 1..Len(wbuf)
    BY <1>1
  <2>2. listfile'[Len(listfile) + (i - Len(listfile))].n = n + (i - Len(listfile))
    BY <2>1, <1>4
  <2>3. Len(listfile) + (i - Len(listfile)) = i
    BY <2>1, <1>1
  <2> QED
    BY <2>1, <2>2, <2>3
<1>6. \A i \in DOMAIN listfile' : listfile'[i].n <= m
  <2> SUFFICES ASSUME NEW i \in DOMAIN listfile' PROVE listfile'[i].n <= m
    OBVIOUS
  <2>1. CASE i \in 1..Len(listfile)
    <3>1. listfile'[i] = listfile[i] /\ listfile[i] \in Section
      BY <2>1, <1>2
    <3>2. listfile[i].n \in Nat /\ listfile[i].n <= n
      BY <3>1, <2>1, <1>1 DEF Recorded, Section
    <3> QED
      BY <3>1, <3>2, <1>1
  <2>2. CASE i \notin 1..Len(listfile)
    BY <2>2, <1>1, <1>5
  <2> QED
    BY <2>1, <2>2
<1>7. \A k \in 1..m : \E i \in DOMAIN listfile' : listfile'[i].n = k
  <2> SUFFICES ASSUME NEW k \in 1..m
               PROVE  \E i \in DOMAIN listfile' : listfile'[i].n = k
    OBVIOUS
  <2>1. CASE k <= n
    BY <2>1, <1>1, <1>2 DEF Recorded
  <2>2. CASE k > n
    <3>1. k - n \in 1..Len(wbuf)
      BY <2>2, <1>1
    <3>2. /\ Len(listfile) + (k - n) \in DOMAIN listfile'
          /\ listfile'[Len(listfile) + (k - n)].n = n + (k - n)
      BY <3>1, <1>3, <1>4
    <3>3. n + (k - n) = k
      OBVIOUS
    <3> QED
      BY <3>2, <3>3
  <2> QED
    BY <2>1, <2>2
<1>8. \A i, j \in DOMAIN listfile' :
        i < j /\ listfile'[i].n > 0 /\ listfile'[j].n > 0
        => listfile'[i].n < listfile'[j].n
  <2> SUFFICES ASSUME NEW i \in DOMAIN listfile', NEW j \in DOMAIN listfile',
                      i < j, listfile'[i].n > 0, listfile'[j].n > 0
               PROVE  listfile'[i].n < listfile'[j].n
    OBVIOUS
  <2>1. CASE j \in 1..Len(listfile)
    <3>1. i \in 1..Len(listfile)
      BY <2>1, <1>1
    <3> QED
      BY <2>1, <3>1, <1>1, <1>2 DEF Recorded
  <2>2. CASE i \in 1..Len(listfile) /\ j \notin 1..Len(listfile)
    <3>1. listfile'[i] = listfile[i] /\ listfile[i] \in Section
      BY <2>2, <1>2
    <3>2. listfile'[i].n \in Nat /\ listfile'[i].n <= n
      BY <3>1, <2>2, <1>1 DEF Recorded, Section
    <3>3. listfile'[j].n = n + (j - Len(listfile)) /\ j > Len(listfile)
      BY <2>2, <1>5
    <3> QED
      BY <3>2, <3>3, <1>1
  <2>3. CASE i \notin 1..Len(listfile) /\ j \notin 1..Len(listfile)
    BY <2>3, <1>5, <1>1
  <2> QED
    BY <2>1, <2>2, <2>3, <1>1
<1> QED
  BY <1>6, <1>7, <1>8 DEF Recorded

\* A step that leaves everything under way alone.
LEMMA ChainSame ==
  ASSUME NEW n \in Nat, ChainFrom(n),
         UNCHANGED <<wbuf, lfFilled, out, sections, options>>,
         lpc' \in DroppedPcs <=> lpc \in DroppedPcs
  PROVE  ChainFrom(n)'
<1>1. WriterStartsFirst' = WriterStartsFirst
  BY SameOptions
<1> QED
  BY <1>1 DEF ChainFrom, Chain, Numbered

\* New sections go on from the last one.
LEMMA ChainWrite ==
  ASSUME BufferInv, NEW n \in Nat, ChainFrom(n), WriteStep, options' = options
  PROVE  ChainFrom(n)'
<1>0. /\ UNCHANGED <<wbuf, lfFilled>> /\ lpc \notin DroppedPcs
      /\ out \in Seq(Section) /\ sections \in Nat /\ Len(lfFilled) \in Nat
  BY DEF WriteStep, Busy, writerVars, BufferInv, BufferTypes
<1>1. PICK new \in Seq(Section) : /\ Numbered(new, sections) /\ out' = out \o new
                                  /\ sections' = sections + Len(new)
  BY DEF WriteStep
<1>2. PICK P \in [0..Len(lfFilled) -> 0..sections] : P[0] = n + Len(wbuf) /\ Chain(P)
  BY DEF ChainFrom
<1> DEFINE last == P[Len(lfFilled)]
<1>3. last \in Nat /\ last + Len(out) = sections
  <2>1. Len(lfFilled) \in 0..Len(lfFilled)
    BY <1>0
  <2>2. last \in Nat
    BY <2>1, <1>0, <1>2
  <2>3. last + Len(out) = sections
    BY <1>0, <1>2 DEF Chain
  <2> QED
    BY <2>2, <2>3
<1> HIDE DEF last
<1>4. Len(out') = Len(out) + Len(new) /\ Len(out) \in Nat /\ Len(new) \in Nat
  BY <1>0, <1>1
<1>5. Numbered(out', last)
  <2> SUFFICES ASSUME NEW i \in 1..Len(out') PROVE out'[i].n = last + i
    BY DEF Numbered
  <2>1. CASE i <= Len(out)
    <3>1. out'[i] = out[i] /\ i \in 1..Len(out)
      BY <2>1, <1>0, <1>1, <1>4
    <3> QED
      BY <3>1, <1>2 DEF Chain, Numbered, last
  <2>2. CASE i > Len(out)
    <3>1. i - Len(out) \in 1..Len(new) /\ out'[i] = new[i - Len(out)]
      BY <2>2, <1>0, <1>1, <1>4
    <3>2. new[i - Len(out)].n = sections + (i - Len(out))
      BY <3>1, <1>1 DEF Numbered
    <3> QED
      BY <3>1, <3>2, <1>3, <1>4
  <2> QED
    BY <2>1, <2>2, <1>4
<1>6. last + Len(out') = sections' /\ sections <= sections'
  BY <1>0, <1>1, <1>3, <1>4
<1>7. P \in [0..Len(lfFilled') -> 0..sections'] /\ P[0] = n + Len(wbuf')
  <2>1. 0..sections \subseteq 0..sections'
    BY <1>0, <1>1, <1>4
  <2> QED
    BY <2>1, <1>0, <1>2
<1>8. Chain(P)'
  <2>1. \A i \in 1..Len(lfFilled') :
          Numbered(lfFilled'[i], P[i - 1]) /\ P[i] = P[i - 1] + Len(lfFilled'[i])
    BY <1>0, <1>2 DEF Chain
  <2>2. last = P[Len(lfFilled')]
    BY <1>0 DEF last
  <2> QED
    BY <2>1, <2>2, <1>0, <1>1, <1>4, <1>5, <1>6 DEF Chain, Numbered
<1>9. Numbered(wbuf, n)'
  BY <1>0 DEF ChainFrom, Numbered
<1> QED
  BY <1>7, <1>8, <1>9 DEF ChainFrom

\* A buffer appended to the queue: the output buffer, or the empty sentinel
\* when the output buffer is empty.
LEMMA ChainEnqueue ==
  ASSUME BufferInv, NEW n \in Nat, ChainFrom(n),
         lfFilled' = Append(lfFilled, out), out' = <<>>,
         UNCHANGED <<wbuf, sections, options>>,
         lpc' \in DroppedPcs <=> lpc \in DroppedPcs
  PROVE  ChainFrom(n)'
<1>0. /\ out \in Seq(Section) /\ sections \in Nat /\ Len(lfFilled) \in Nat
      /\ lfFilled \in Seq(Seq(Section)) /\ Len(out) \in Nat /\ Len(out') = 0
  BY DEF BufferInv, BufferTypes
<1>1. /\ Len(lfFilled') = Len(lfFilled) + 1
      /\ \A i \in 1..Len(lfFilled) : lfFilled'[i] = lfFilled[i]
      /\ lfFilled'[Len(lfFilled) + 1] = out
  BY <1>0
<1>2. PICK P \in [0..Len(lfFilled) -> 0..sections] : P[0] = n + Len(wbuf) /\ Chain(P)
  BY DEF ChainFrom
<1>l. PICK last \in Nat : last = P[Len(lfFilled)]
  <2>1. Len(lfFilled) \in 0..Len(lfFilled)
    BY <1>0
  <2>2. P[Len(lfFilled)] \in 0..sections
    BY <2>1, <1>2
  <2>3. P[Len(lfFilled)] \in Nat
    BY <2>2, <1>0
  <2> QED
    BY <2>3
<1>3. last + Len(out) \in 0..sections
  BY <1>0, <1>2, <1>l DEF Chain
<1>4. PICK Q \in [0..Len(lfFilled') -> 0..sections] :
         /\ \A i \in 0..Len(lfFilled) : Q[i] = P[i]
         /\ Q[Len(lfFilled) + 1] = last + Len(out)
         /\ Q[0] = P[0]
  <2> DEFINE R == [i \in 0..Len(lfFilled') |->
                    IF i <= Len(lfFilled) THEN P[i] ELSE last + Len(out)]
  <2>1. /\ R \in [0..Len(lfFilled') -> 0..sections]
        /\ \A i \in 0..Len(lfFilled) : R[i] = P[i]
        /\ R[Len(lfFilled) + 1] = last + Len(out)
        /\ R[0] = P[0]
    BY <1>0, <1>1, <1>2, <1>3
  <2> QED
    BY <2>1
<1>5. \A i \in 1..Len(lfFilled') :
        Numbered(lfFilled'[i], Q[i - 1]) /\ Q[i] = Q[i - 1] + Len(lfFilled'[i])
  <2> SUFFICES ASSUME NEW i \in 1..Len(lfFilled')
               PROVE  Numbered(lfFilled'[i], Q[i - 1])
                      /\ Q[i] = Q[i - 1] + Len(lfFilled'[i])
    OBVIOUS
  <2>1. CASE i <= Len(lfFilled)
    <3>1. i \in 1..Len(lfFilled) /\ i \in 0..Len(lfFilled) /\ i - 1 \in 0..Len(lfFilled)
      BY <2>1, <1>0
    <3>2. Q[i] = P[i] /\ Q[i - 1] = P[i - 1] /\ lfFilled'[i] = lfFilled[i]
      BY <3>1, <1>1, <1>4
    <3> QED
      BY <3>1, <3>2, <1>2 DEF Chain
  <2>2. CASE i = Len(lfFilled) + 1
    <3>1. i - 1 = Len(lfFilled) /\ Len(lfFilled) \in 0..Len(lfFilled)
      BY <2>2, <1>0
    <3>2. Q[i] = last + Len(out) /\ Q[i - 1] = last /\ lfFilled'[i] = out
      BY <3>1, <2>2, <1>1, <1>4, <1>l
    <3> QED
      BY <3>2, <1>2, <1>l DEF Chain
  <2> QED
    BY <2>1, <2>2, <1>0, <1>1
<1>6. Numbered(out', Q[Len(lfFilled')])
  BY <1>0 DEF Numbered
<1>7. WriterStartsFirst' = WriterStartsFirst
  BY SameOptions
<1>8. Q[Len(lfFilled')] = last + Len(out)
  BY <1>1, <1>4
<1>9. /\ Q[Len(lfFilled')] + Len(out') <= sections'
      /\ WriterStartsFirst' \/ lpc' \notin DroppedPcs =>
           Q[Len(lfFilled')] + Len(out') = sections'
  BY <1>0, <1>2, <1>3, <1>l, <1>7, <1>8 DEF Chain
<1>10. Chain(Q)'
  BY <1>5, <1>6, <1>9 DEF Chain, Numbered
<1>11. Q \in [0..Len(lfFilled') -> 0..sections'] /\ Q[0] = n + Len(wbuf')
  BY <1>2, <1>4
<1>12. Numbered(wbuf, n)'
  BY DEF ChainFrom, Numbered
<1> QED
  BY <1>10, <1>11, <1>12 DEF ChainFrom

\* The writer takes the first buffer of the queue, or the sentinel.
LEMMA ChainDequeue ==
  ASSUME BufferInv, NEW n \in Nat, ChainFrom(n), wbuf = <<>>,
         lfFilled # <<>>, lfFilled' = Tail(lfFilled), wbuf' = Head(lfFilled),
         UNCHANGED <<out, sections, options, lpc>>
  PROVE  ChainFrom(n)'
<1>0. /\ out \in Seq(Section) /\ sections \in Nat /\ Len(lfFilled) \in Nat
      /\ lfFilled \in Seq(Seq(Section)) /\ Len(wbuf) = 0
  BY DEF BufferInv, BufferTypes
<1>1. /\ Len(lfFilled') = Len(lfFilled) - 1 /\ Len(lfFilled) >= 1
      /\ \A i \in 1..Len(lfFilled') : lfFilled'[i] = lfFilled[i + 1]
      /\ wbuf' = lfFilled[1] /\ Len(lfFilled[1]) \in Nat
  BY <1>0
<1>2. PICK P \in [0..Len(lfFilled) -> 0..sections] : P[0] = n + Len(wbuf) /\ Chain(P)
  BY DEF ChainFrom
<1>3. PICK Q \in [0..Len(lfFilled') -> 0..sections] :
         \A i \in 0..(Len(lfFilled) - 1) : Q[i] = P[i + 1]
  <2> DEFINE R == [i \in 0..Len(lfFilled') |-> P[i + 1]]
  <2>1. /\ R \in [0..Len(lfFilled') -> 0..sections]
        /\ \A i \in 0..(Len(lfFilled) - 1) : R[i] = P[i + 1]
    BY <1>0, <1>1, <1>2
  <2> QED
    BY <2>1
<1>4. P[0] = n /\ 1 \in 1..Len(lfFilled)
  BY <1>0, <1>1, <1>2
<1>5. Numbered(lfFilled[1], P[0]) /\ P[1] = P[0] + Len(lfFilled[1])
  <2>1. Numbered(lfFilled[1], P[1 - 1]) /\ P[1] = P[1 - 1] + Len(lfFilled[1])
    BY <1>2, <1>4 DEF Chain
  <2> QED
    BY <2>1
<1>6. Q[0] = n + Len(wbuf') /\ Numbered(wbuf', n)
  BY <1>0, <1>1, <1>3, <1>4, <1>5
<1>7. \A i \in 1..Len(lfFilled') :
        Numbered(lfFilled'[i], Q[i - 1]) /\ Q[i] = Q[i - 1] + Len(lfFilled'[i])
  <2> SUFFICES ASSUME NEW i \in 1..Len(lfFilled')
               PROVE  Numbered(lfFilled'[i], Q[i - 1])
                      /\ Q[i] = Q[i - 1] + Len(lfFilled'[i])
    OBVIOUS
  <2>1. /\ i + 1 \in 1..Len(lfFilled) /\ i \in 0..(Len(lfFilled) - 1)
        /\ i - 1 \in 0..(Len(lfFilled) - 1) /\ (i - 1) + 1 = i /\ (i + 1) - 1 = i
    BY <1>0, <1>1
  <2>2. Q[i] = P[i + 1] /\ Q[i - 1] = P[i] /\ lfFilled'[i] = lfFilled[i + 1]
    BY <2>1, <1>1, <1>3
  <2>3. /\ Numbered(lfFilled[i + 1], P[(i + 1) - 1])
        /\ P[i + 1] = P[(i + 1) - 1] + Len(lfFilled[i + 1])
    BY <2>1, <1>2 DEF Chain
  <2> QED
    BY <2>1, <2>2, <2>3
<1>8. Q[Len(lfFilled')] = P[Len(lfFilled)]
  BY <1>0, <1>1, <1>3
<1>9. WriterStartsFirst' = WriterStartsFirst
  BY SameOptions
<1>10. Chain(Q)'
  <2>1. /\ Numbered(out, P[Len(lfFilled)])
        /\ P[Len(lfFilled)] + Len(out) <= sections
        /\ WriterStartsFirst \/ lpc \notin DroppedPcs =>
             P[Len(lfFilled)] + Len(out) = sections
    BY <1>2 DEF Chain
  <2>2. /\ Numbered(out', Q[Len(lfFilled')])
        /\ Q[Len(lfFilled')] + Len(out') <= sections'
        /\ WriterStartsFirst' \/ lpc' \notin DroppedPcs =>
             Q[Len(lfFilled')] + Len(out') = sections'
    BY <2>1, <1>8, <1>9
  <2> QED
    BY <2>2, <1>7 DEF Chain, Numbered
<1>11. Numbered(wbuf, n)'
  BY <1>6 DEF Numbered
<1> QED
  BY <1>3, <1>6, <1>10, <1>11 DEF ChainFrom

\* Where the listfile does not change, it is enough that the chain is kept.
LEMMA FileSame ==
  ASSUME FileInv, BufferInv, UNCHANGED listfile, FileTypes',
         sections' \in Nat, sections' >= sections,
         \A n \in 0..sections : (Recording => ChainFrom(n)) => (Recording' => ChainFrom(n)')
  PROVE  FileInv'
<1>1. PICK n \in 0..sections : Recorded(n) /\ (Recording => ChainFrom(n))
  BY DEF FileInv
<1>2. Recorded(n)' /\ n \in 0..sections'
  BY <1>1 DEF Recorded, BufferInv, BufferTypes
<1>3. Recording' => ChainFrom(n)'
  BY <1>1
<1> QED
  BY <1>2, <1>3 DEF FileInv

\* Every step keeps FileInv.
LEMMA FileStep ==
  ControlTypes /\ ThreadInv /\ BufferInv /\ RunInv /\ FileInv /\ [Next]_vars => FileInv'
<1> SUFFICES ASSUME ControlTypes, ThreadInv, BufferInv, RunInv, FileInv, [Next]_vars
             PROVE  FileInv'
  OBVIOUS
<1>o. options' = options
  BY StepKinds
<1>t. /\ sections \in Nat /\ lfFilled \in Seq(Seq(Section)) /\ out \in Seq(Section)
      /\ Len(lfFilled) \in Nat /\ \A n \in 0..sections : n \in Nat
  BY DEF BufferInv, BufferTypes
<1>f. wbuf \in Seq(Section) /\ lfh \in BOOLEAN /\ listfile \in Seq(Section)
  BY DEF FileInv, FileTypes
<1>g. ~LoopSpawn => (Recording' => Recording)
  BY GoodBefore DEF RunInv
<1>1. CASE QuietStep
  <2>1. /\ UNCHANGED <<wbuf, lfFilled, out, sections, options, lfh, listfile>>
        /\ lpc' \in DroppedPcs <=> lpc \in DroppedPcs
        /\ Recording' => Recording
    BY <1>1, <1>o DEF QuietStep, QuietMove, writerVars, fileVars, Recording
  <2>2. FileTypes'
    BY <2>1, <1>f DEF FileTypes
  <2>3. \A n \in 0..sections : (Recording => ChainFrom(n)) => (Recording' => ChainFrom(n)')
    BY <2>1, <1>t, ChainSame
  <2> QED
    BY <2>1, <2>2, <2>3, <1>t, FileSame
<1>2. CASE FacadeStep
  <2>1. /\ UNCHANGED <<lpc, wbuf, lfFilled, out, sections, options, lfh>>
        /\ Recording' => Recording
    BY <1>2, <1>o DEF FacadeStep, writerVars, Recording
  <2>2. PICK n \in 0..sections : Recorded(n) /\ (Recording => ChainFrom(n))
    BY DEF FileInv
  <2>3. Recorded(n)' /\ listfile' \in Seq(Section)
    <3>1. CASE listfile' = listfile
      BY <3>1, <2>2, <1>f DEF Recorded
    <3>2. CASE \E x \in Section : x.n = 0 /\ listfile' = Append(listfile, x)
      <4>1. PICK x \in Section : x.n = 0 /\ listfile' = Append(listfile, x)
        BY <3>2
      <4>2. Append(listfile, x) \in Seq(Section) /\ n \in Nat
        BY <1>f, <1>t
      <4>3. Recorded(n)'
        BY <4>1, <4>2, <2>2, <1>f, RecordedFacade
      <4> QED
        BY <4>1, <4>2, <4>3
    <3> QED
      BY <3>1, <3>2, <1>2 DEF FacadeStep
  <2>4. Recording' => ChainFrom(n)'
    BY <2>1, <2>2, <1>t, ChainSame
  <2>5. FileTypes'
    BY <2>1, <2>3, <1>f DEF FileTypes
  <2> QED
    BY <2>1, <2>2, <2>3, <2>4, <2>5 DEF FileInv
<1>3. CASE LoopSpawn
  <2>1. /\ lpc = "Spawn" /\ lpc' = "SetRunning" /\ wbuf' = <<>>
        /\ UNCHANGED <<lfFilled, lfh, listfile>>
        /\ Write(Some("BeginRun", 1))
    BY <1>3 DEF LoopSpawn, lfVars, fileVars
  <2>2. Some("BeginRun", 1) \in Seq(Section) /\ Len(Some("BeginRun", 1)) = 1
        /\ Numbered(Some("BeginRun", 1), sections)
    BY <1>t, SomeType, SomeNumbered DEF Kinds
  <2>3. out' = out \o Some("BeginRun", 1) /\ sections' = sections + 1
    BY <2>1, <2>2 DEF Write
  <2>4. FileTypes'
    BY <2>1, <1>f DEF FileTypes
  <2>5. ASSUME lfh PROVE ChainFrom(0)' /\ sections = 0
    <3>1. sections = 0 /\ out = <<>> /\ lfFilled' = <<>> /\ lpc' \notin DroppedPcs
      BY <2>5, <2>1 DEF RunInv, FreshInv, BeforePcs, DroppedPcs
    <3>2. out' = Some("BeginRun", 1) /\ Len(out') = 1 /\ sections' = 1
      BY <3>1, <2>2, <2>3
    <3>3. PICK P \in [0..0 -> 0..1] : P[0] = 0
      <4>1. [i \in 0..0 |-> 0] \in [0..0 -> 0..1] /\ [i \in 0..0 |-> 0][0] = 0
        OBVIOUS
      <4> QED
        BY <4>1
    <3>4. Len(lfFilled') = 0 /\ Len(wbuf') = 0
      BY <3>1, <2>1
    <3>5. Chain(P)'
      BY <3>1, <3>2, <3>3, <3>4, <2>2 DEF Chain, Numbered
    <3>6. Numbered(wbuf, 0)'
      BY <2>1 DEF Numbered
    <3> QED
      BY <3>1, <3>2, <3>3, <3>4, <3>5, <3>6 DEF ChainFrom
  <2>6. PICK n \in 0..sections : Recorded(n)
    BY DEF FileInv
  <2>7. Recorded(n)' /\ n \in 0..sections'
    BY <2>1, <2>3, <2>6, <1>t DEF Recorded
  <2>8. Recording' => ChainFrom(n)'
    <3>1. ASSUME Recording' PROVE ChainFrom(n)'
      <4>1. lfh
        BY <3>1, <2>1 DEF Recording
      <4>2. n = 0
        BY <4>1, <2>5, <2>6
      <4> QED
        BY <4>1, <4>2, <2>5
    <3> QED
      BY <3>1
  <2> QED
    BY <2>4, <2>7, <2>8 DEF FileInv
<1>4. CASE WriteStep
  <2>1. UNCHANGED <<wbuf, lfh, listfile>> /\ (Recording' => Recording)
    BY <1>4 DEF WriteStep, writerVars, fileVars, Recording
  <2>2. sections' \in Nat /\ sections' >= sections
    BY <1>4, <1>t DEF WriteStep
  <2>3. \A n \in 0..sections : (Recording => ChainFrom(n)) => (Recording' => ChainFrom(n)')
    BY <1>4, <2>1, <1>t, <1>o, ChainWrite
  <2>4. FileTypes'
    BY <2>1, <1>f DEF FileTypes
  <2> QED
    BY <2>1, <2>2, <2>3, <2>4, FileSame
<1>5. CASE FlushStep
  <2>1. /\ UNCHANGED <<wbuf, lfh, listfile, sections, options>>
        /\ Recording' => Recording
        /\ lpc' \in DroppedPcs <=> lpc \in DroppedPcs
    BY <1>5, <1>o DEF FlushStep, Busy, writerVars, fileVars, Recording
  <2>2. \A n \in 0..sections : (Recording => ChainFrom(n)) => (Recording' => ChainFrom(n)')
    <3>1. CASE out = <<>>
      <4>1. UNCHANGED <<lfFilled, out>>
        BY <3>1, <1>5 DEF FlushStep
      <4> QED
        BY <4>1, <2>1, <1>t, ChainSame
    <3>2. CASE out # <<>>
      <4>1. lfFilled' = Append(lfFilled, out) /\ out' = <<>>
        BY <3>2, <1>5 DEF FlushStep
      <4> QED
        BY <4>1, <2>1, <1>t, ChainEnqueue
    <3> QED
      BY <3>1, <3>2
  <2>3. FileTypes'
    BY <2>1, <1>f DEF FileTypes
  <2> QED
    BY <2>1, <2>2, <2>3, <1>t, FileSame
<1>6. CASE maybePutBackSnoopBuffer
  <2>1. /\ UNCHANGED <<wbuf, lfh, listfile, sections, lfFilled>>
        /\ Recording' => Recording
        /\ lpc = "PutBack" /\ lpc' = "IfSentinel" /\ out' = <<>>
    BY <1>6 DEF maybePutBackSnoopBuffer, writerVars, fileVars, lfVars, Recording
  <2>2. WriterStartsFirst' = WriterStartsFirst
    BY <1>o, SameOptions
  <2>3. ASSUME NEW n \in 0..sections, ChainFrom(n), Recording
        PROVE  ChainFrom(n)'
    <3>1. PICK P \in [0..Len(lfFilled) -> 0..sections] : P[0] = n + Len(wbuf) /\ Chain(P)
      BY <2>3 DEF ChainFrom
    <3>2. P[Len(lfFilled)] \in 0..sections /\ Len(out') = 0
      <4>1. Len(lfFilled) \in 0..Len(lfFilled)
        BY <1>t
      <4> QED
        BY <4>1, <3>1, <2>1
    <3>3. P[Len(lfFilled')] + Len(out') <= sections'
      BY <3>2, <2>1, <1>t
    <3>4. WriterStartsFirst' \/ lpc' \notin DroppedPcs =>
            P[Len(lfFilled')] + Len(out') = sections'
      <4> SUFFICES ASSUME WriterStartsFirst PROVE P[Len(lfFilled')] + Len(out') = sections'
        BY <2>1, <2>2 DEF DroppedPcs
      <4>1. out = <<>> /\ Len(out) = 0
        BY <2>1, <2>3 DEF RunInv, OutInv
      <4>2. P[Len(lfFilled)] + Len(out) = sections
        BY <3>1 DEF Chain
      <4> QED
        BY <4>1, <4>2, <3>2, <2>1
    <3>5. Chain(P)'
      BY <3>1, <3>2, <3>3, <3>4, <2>1 DEF Chain, Numbered
    <3>6. Numbered(wbuf, n)'
      BY <2>1, <2>3 DEF ChainFrom, Numbered
    <3> QED
      BY <3>1, <3>5, <3>6, <2>1 DEF ChainFrom
  <2>4. FileTypes'
    BY <2>1, <1>f DEF FileTypes
  <2> QED
    BY <2>1, <2>3, <2>4, <1>t, FileSame
<1>7. CASE StopSentinel
  <2>1. /\ UNCHANGED <<wbuf, lfh, listfile, sections, options>>
        /\ Recording' => Recording
        /\ lpc = "Sentinel" /\ lpc' = "Join" /\ out' = out
        /\ lfFilled' = Append(lfFilled, <<>>)
    BY <1>7, <1>o DEF StopSentinel, writerVars, fileVars, outVars, Recording
  <2>2. out = <<>>
    BY <2>1 DEF RunInv, OutInv, DroppedPcs
  <2>3. lfFilled' = Append(lfFilled, out) /\ out' = <<>>
        /\ (lpc' \in DroppedPcs <=> lpc \in DroppedPcs)
    BY <2>1, <2>2 DEF DroppedPcs
  <2>4. \A n \in 0..sections : (Recording => ChainFrom(n)) => (Recording' => ChainFrom(n)')
    BY <2>1, <2>3, <1>t, ChainEnqueue
  <2>5. FileTypes'
    BY <2>1, <1>f DEF FileTypes
  <2> QED
    BY <2>1, <2>4, <2>5, <1>t, FileSame
<1>8. CASE StopRelease
  <2>1. UNCHANGED <<wbuf, listfile, sections>> /\ lfh' = FALSE
    BY <1>8 DEF StopRelease, writerVars, outVars
  <2>2. FileTypes' /\ ~Recording'
    BY <2>1, <1>f DEF FileTypes, Recording
  <2> QED
    BY <2>1, <2>2, <1>t, FileSame
<1>9. CASE WriterStart \/ WriterThrow \/ WriterFinish
  <2>1. UNCHANGED <<lpc, wbuf, lfh, listfile, sections, lfFilled, out, options>> /\ ~LoopSpawn
    BY <1>9, <1>o DEF WriterStart, WriterThrow, WriterFinish, fileVars, outVars, lfVars,
       loopVars, LoopSpawn
  <2>2. FileTypes'
    BY <2>1, <1>f DEF FileTypes
  <2>3. \A n \in 0..sections : (Recording => ChainFrom(n)) => (Recording' => ChainFrom(n)')
    BY <2>1, <1>g, <1>t, ChainSame
  <2> QED
    BY <2>1, <2>2, <2>3, <1>t, FileSame
<1>10. CASE WriterDequeue
  <2>1. /\ wpc = "dequeue" /\ lfFilled # <<>> /\ lfFilled' = Tail(lfFilled)
        /\ UNCHANGED <<lpc, lfh, listfile, sections, out, options>> /\ ~LoopSpawn
        /\ \/ Head(lfFilled) = <<>> /\ wbuf' = wbuf
           \/ wbuf' = Head(lfFilled)
    BY <1>10, <1>o DEF WriterDequeue, fileVars, outVars, loopVars, LoopSpawn
  <2>2. wbuf = <<>> /\ wbuf' = Head(lfFilled)
    BY <2>1 DEF RunInv, WriterInv
  <2>3. Head(lfFilled) \in Seq(Section)
    BY <2>1, <1>t, QueueType
  <2>4. FileTypes'
    BY <2>1, <2>2, <2>3, <1>f DEF FileTypes
  <2>5. \A n \in 0..sections : (Recording => ChainFrom(n)) => (Recording' => ChainFrom(n)')
    BY <2>1, <2>2, <1>g, <1>t, ChainDequeue
  <2> QED
    BY <2>1, <2>4, <2>5, <1>t, FileSame
<1>11. CASE WriterWrite
  <2>1. /\ wpc = "write" /\ wbuf' = <<>> /\ ~LoopSpawn
        /\ UNCHANGED <<lpc, lfh, sections, out, lfFilled, options>>
    BY <1>11, <1>o DEF WriterWrite, outVars, loopVars, LoopSpawn
  <2>2. CASE listfile' = listfile /\ (~lfh \/ wpc' = "throw")
    <3>1. FileTypes' /\ ~Recording'
      BY <2>1, <2>2, <1>f DEF FileTypes, Recording
    <3> QED
      BY <3>1, <2>1, <2>2, <1>t, FileSame
  <2>3. CASE lfh /\ listfile' = listfile \o wbuf
    <3>1. Recording
      BY <2>1, <2>3 DEF Recording, RunInv, WriterInv
    <3>2. PICK n \in 0..sections : Recorded(n) /\ ChainFrom(n)
      BY <3>1 DEF FileInv
    <3>3. PICK P \in [0..Len(lfFilled) -> 0..sections] : P[0] = n + Len(wbuf) /\ Chain(P)
      BY <3>2 DEF ChainFrom
    <3>4. PICK m \in 0..sections : m = n + Len(wbuf)
      <4>1. 0 \in 0..Len(lfFilled)
        BY <1>t
      <4> QED
        BY <4>1, <3>3
    <3>5. Recorded(m)'
      BY <3>2, <3>4, <2>3, <1>f, <1>t, RecordedMore DEF ChainFrom
    <3>6. ChainFrom(m)'
      <4>1. Len(wbuf') = 0 /\ P[0] = m + Len(wbuf')
        BY <2>1, <3>3, <3>4, <1>t
      <4>2. Chain(P)'
        <5>1. WriterStartsFirst' = WriterStartsFirst
          BY <2>1, SameOptions
        <5> QED
          BY <5>1, <2>1, <3>3 DEF Chain, Numbered
      <4>3. Numbered(wbuf, m)'
        BY <2>1 DEF Numbered
      <4> QED
        BY <4>1, <4>2, <4>3, <2>1, <3>3 DEF ChainFrom
    <3>7. FileTypes'
      <4>1. listfile \o wbuf \in Seq(Section)
        BY <1>f
      <4> QED
        BY <4>1, <2>1, <2>3, <1>f DEF FileTypes
    <3> QED
      BY <3>4, <3>5, <3>6, <3>7, <2>1 DEF FileInv
  <2> QED
    BY <1>11, <2>2, <2>3 DEF WriterWrite
<1> QED
  BY <1>1, <1>2, <1>3, <1>4, <1>5, <1>6, <1>7, <1>8, <1>9, <1>10, <1>11, StepKinds
     DEF WriterNext

-----------------------------------------------------------------------------
(* Types of the control variables and of the device.                       *)

\* Initially the types hold.
LEMMA ControlInit == Init => ControlTypes /\ DeviceTypes
<1> SUFFICES ASSUME Init PROVE ControlTypes /\ DeviceTypes
  OBVIOUS
<1>1. gotData \in BOOLEAN /\ eptr \in BOOLEAN /\ daqMode \in BOOLEAN
  BY DEF Init
<1>2. ControlTypes
  BY <1>1 DEF Init, ControlTypes, States, UserPcs, LoopPcs, Errors
<1>3. DeviceTypes
  BY <1>1 DEF Init, DeviceTypes
<1> QED
  BY <1>2, <1>3

\* What commands return.
LEMMA ResultTypes == Results \subseteq Errors
  BY DEF Results, Errors

\* A write to daq_mode leaves a Boolean.
LEMMA DaqModeType ==
  ASSUME daqMode \in BOOLEAN, NEW value \in BOOLEAN, NEW result,
         WriteDaqMode(value, result)
  PROVE  daqMode' \in BOOLEAN
  BY DEF WriteDaqMode

\* The places of the worker thread.
LEMMA LoopPcStep == lpc \in LoopPcs /\ [Next]_vars => lpc' \in LoopPcs
<1> SUFFICES ASSUME lpc \in LoopPcs, [Next]_vars PROVE lpc' \in LoopPcs
  OBVIOUS
<1>1. CASE UNCHANGED vars \/ ReaderNext \/ WriterNext \/ Environment
  BY <1>1 DEF vars, loopVars, ReaderNext, ReaderLoad, ReaderRead, ReaderFlush,
     WriterNext, WriterStart, WriterDequeue, WriterWrite, WriterThrow, WriterFinish,
     Environment, SnoopTake, Trigger, LinkLost
<1>2. CASE UserNext
  BY <1>2 DEF UserNext, FacadeStart, UserStart, UserStartDesired,
     UserStartJoin, UserFuture, UserStop, UserPause, UserResume, Check,
     UserDesire, FacadeStopped, FacadeDestroy, loopVars, LoopPcs
<1>3. CASE LoopRedirect \/ LoopAbort \/ LoopSpawn \/ LoopSetRunning
  BY <1>3 DEF LoopRedirect, LoopAbort, LoopSpawn, LoopSetRunning, SetState,
     SetDesired, LoopPcs
<1>4. CASE startReadout
  BY <1>4 DEF startReadout, SpawnReader, StartTriggers, McstCommands, DaqMode,
     QuitReader, JoinReader, LoopPcs, ReaderPcs
<1>5. CASE terminateReadout
  BY <1>5 DEF terminateReadout, SpawnReader, McstCommands, DaqMode, QuitReader,
     JoinReader, LoopPcs, ReaderPcs
<1>6. CASE LoopStarted \/ LoopPlugins \/ LoopCheck \/ LoopReadout
           \/ LoopReadoutFlush \/ LoopTerminated \/ LoopEnd
  BY <1>6 DEF LoopStarted, LoopPlugins, LoopCheck, LoopReadout, Begin,
     LoopReadoutFlush, LoopTerminated, LoopEnd, LoopPcs, TermPcs
<1>7. CASE LoopPause \/ LoopResume
  BY <1>7 DEF LoopPause, LoopResume, PauseResumeSection, LoopFlush, SetState,
     SetDesired, LoopPcs
<1>8. CASE LoopStop
  BY <1>8 DEF LoopStop, SetState, SetDesired, PauseResumeSection, LoopFlush,
     IfWriterRunning, maybePutBackSnoopBuffer, StopSentinel, StopJoin,
     StopRelease, LoopPcs, TermPcs
<1> QED
  BY <1>1, <1>2, <1>3, <1>4, <1>5, <1>6, <1>7, <1>8 DEF Next, LoopNext

\* The other control variables and the device keep their types.
LEMMA ControlStep ==
  ControlTypes /\ DeviceTypes /\ [Next]_vars => ControlTypes' /\ DeviceTypes'
<1> SUFFICES ASSUME ControlTypes, DeviceTypes, [Next]_vars
             PROVE  ControlTypes' /\ DeviceTypes'
  OBVIOUS
<1>o. options' \in Options
  BY DEF Next, vars, ControlTypes
<1>l. lpc' \in LoopPcs
  BY LoopPcStep DEF ControlTypes
<1> DEFINE
      UserTypes   == /\ state \in States /\ desiredState \in States
                     /\ upc \in UserPcs /\ calls \in Nat
      WorkTypes   == /\ future \in {"none", "unset"} \cup Errors
                     /\ activity \in {"start", "pause", "resume", "stop"}
                     /\ ec \in Errors
      ReadTypes   == /\ rpc \in {"none", "loop", "read", "flush", "done"}
                     /\ readerAction \in {"Run", "Quit", "QuitWhenEmpty"}
                     /\ action \in {"Run", "Quit", "QuitWhenEmpty"}
                     /\ gotData \in BOOLEAN
      WriteTypes  == /\ wpc \in {"none", "created", "dequeue", "write", "throw",
                                 "finish", "done"}
                     /\ writerState \in {"Idle", "Running"} /\ eptr \in BOOLEAN
<1>0. UserTypes /\ WorkTypes /\ ReadTypes /\ WriteTypes
  BY DEF ControlTypes
<1>a. CASE (UserTypes /\ WorkTypes /\ ReadTypes /\ WriteTypes)' /\ DeviceTypes'
  BY <1>a, <1>o, <1>l DEF ControlTypes
<1> HIDE DEF UserTypes, WorkTypes, ReadTypes, WriteTypes
<1>u. UNCHANGED <<stateVars, userVars>> => UserTypes'
  BY <1>0 DEF UserTypes, stateVars, userVars
<1>w. UNCHANGED <<activity, ec, future>> => WorkTypes'
  BY <1>0 DEF WorkTypes
<1>r. UNCHANGED readerVars => ReadTypes'
  BY <1>0 DEF ReadTypes, readerVars
<1>x. UNCHANGED <<wpc, writerState, eptr>> => WriteTypes'
  BY <1>0 DEF WriteTypes
<1>d. UNCHANGED devVars => DeviceTypes'
  BY DEF DeviceTypes, devVars
<1>e. Results \subseteq Errors
  BY ResultTypes
<1>1. CASE UNCHANGED vars
  BY <1>1, <1>u, <1>w, <1>r, <1>x, <1>d, <1>a DEF vars, loopVars, writerVars
<1>2. CASE UserNext
  <2>1. UNCHANGED <<readerVars, writerVars>>
    BY <1>2 DEF UserNext, FacadeStart, UserStart, UserStartDesired,
       UserStartJoin, UserFuture, UserStop, UserPause, UserResume, Check,
       UserDesire, FacadeStopped, FacadeDestroy
  <2>2. UserTypes'
    <3>1. calls' = calls \/ calls' = calls + 1
      BY <1>2 DEF UserNext, FacadeStart, UserStart, UserStartDesired,
         UserStartJoin, UserFuture, UserStop, UserPause, UserResume, Check, Call,
         UserDesire, FacadeStopped, FacadeDestroy
    <3>2. upc' \in UserPcs
      BY <1>2, <1>0 DEF UserTypes, UserNext, FacadeStart, UserStart, UserStartDesired,
         UserStartJoin, UserFuture, UserStop, UserPause, UserResume, Check,
         UserDesire, FacadeStopped, FacadeDestroy, UserPcs
    <3>3. state' \in States /\ desiredState' \in States
      BY <1>2, <1>0 DEF UserTypes, UserNext, FacadeStart, UserStart, UserStartDesired,
         UserStartJoin, UserFuture, UserStop, UserPause, UserResume, Check,
         UserDesire, FacadeStopped, FacadeDestroy, stateVars, States
    <3> QED
      BY <3>1, <3>2, <3>3, <1>0 DEF UserTypes
  <2>3. WorkTypes'
    BY <1>2, <1>0 DEF WorkTypes, UserNext, FacadeStart, UserStart, UserStartDesired,
       UserStartJoin, UserFuture, UserStop, UserPause, UserResume, Check,
       UserDesire, FacadeStopped, FacadeDestroy, loopVars
  <2>4. CASE UNCHANGED devVars
    BY <2>1, <2>2, <2>3, <2>4, <1>r, <1>x, <1>d, <1>a DEF writerVars
  <2>5. CASE FacadeStart \/ FacadeStopped
    <3>1. daqMode' \in BOOLEAN
      BY <2>5, DaqModeType DEF FacadeStart, FacadeStopped, DeviceTypes
    <3>2. UNCHANGED <<link, pipe, delivered, lastMcst>>
      BY <2>5 DEF FacadeStart, FacadeStopped
    <3> QED
      BY <3>1, <3>2, <2>1, <2>2, <2>3, <1>r, <1>x, <1>a DEF DeviceTypes, writerVars
  <2> QED
    BY <1>2, <2>4, <2>5 DEF UserNext, UserStart, UserStartDesired,
       UserStartJoin, UserFuture, UserStop, UserPause, UserResume, Check,
       UserDesire, FacadeDestroy
<1>3. CASE LoopRedirect
  <2>1. \E result \in Results \cup {"ok"} : future' = result \/ future' = future
    BY <1>3 DEF LoopRedirect
  <2>2. UNCHANGED <<stateVars, userVars, activity, ec, readerVars, writerVars, devVars>>
    BY <1>3 DEF LoopRedirect
  <2>3. WorkTypes'
    BY <2>1, <2>2, <1>0, <1>e DEF WorkTypes, Errors
  <2> QED
    BY <2>2, <2>3, <1>u, <1>r, <1>x, <1>d, <1>a DEF writerVars
<1>4. ASSUME NEW from, NEW target \in States, NEW to,
             SetState(from, target, to) \/ SetDesired(from, target, to)
      PROVE  ControlTypes' /\ DeviceTypes'
  <2>1. UNCHANGED <<userVars, activity, ec, future, readerVars, writerVars, devVars>>
    BY <1>4 DEF SetState, SetDesired
  <2>2. UserTypes'
    BY <1>4, <1>0 DEF SetState, SetDesired, UserTypes, userVars
  <2> QED
    BY <2>1, <2>2, <1>w, <1>r, <1>x, <1>d, <1>a DEF writerVars
<1>5. CASE LoopAbort \/ LoopSetRunning
  BY <1>5, <1>4 DEF LoopAbort, LoopSetRunning, States
<1>6. CASE LoopSpawn
  <2>1. /\ wpc' = "created" /\ writerState' = "Idle" /\ eptr' = FALSE
        /\ activity' = "start"
        /\ UNCHANGED <<stateVars, userVars, ec, future, readerVars, devVars>>
    BY <1>6 DEF LoopSpawn
  <2>2. WorkTypes' /\ WriteTypes'
    BY <2>1, <1>0 DEF WorkTypes, WriteTypes
  <2> QED
    BY <2>1, <2>2, <1>u, <1>r, <1>d, <1>a
<1>7. CASE startReadout \/ terminateReadout
  <2>1. UNCHANGED <<stateVars, userVars, activity, future, writerVars>>
    BY <1>7 DEF startReadout, terminateReadout, SpawnReader, StartTriggers,
       McstCommands, DaqMode, QuitReader, JoinReader
  <2>2. WorkTypes'
    <3>1. ec' \in Errors
      BY <1>7, <1>0, <1>e DEF startReadout, terminateReadout, SpawnReader,
         StartTriggers, McstCommands, DaqMode, QuitReader, JoinReader, WorkTypes, Errors
    <3> QED
      BY <3>1, <2>1, <1>0 DEF WorkTypes
  <2>3. ReadTypes'
    BY <1>7, <1>0 DEF startReadout, terminateReadout, SpawnReader, StartTriggers,
       McstCommands, DaqMode, QuitReader, JoinReader, ReadTypes, readerVars
  <2>4. DeviceTypes'
    <3>1. ASSUME NEW from, NEW value \in BOOLEAN, NEW next, DaqMode(from, value, next)
          PROVE  DeviceTypes'
      <4>1. daqMode' \in BOOLEAN
        BY <3>1, DaqModeType DEF DaqMode, DeviceTypes
      <4> QED
        BY <4>1, <3>1 DEF DaqMode, DeviceTypes
    <3>2. ASSUME NEW from, NEW next, NEW fail, McstCommands(from, "start", next, fail)
          PROVE  DeviceTypes'
      <4>1. lastMcst' \in {lastMcst, "start"} /\ UNCHANGED <<link, daqMode, pipe, delivered>>
        BY <3>2 DEF McstCommands
      <4> QED
        BY <4>1 DEF DeviceTypes
    <3>3. CASE UNCHANGED devVars
      BY <3>3, <1>d
    <3> QED
      BY <1>7, <3>1, <3>2, <3>3 DEF startReadout, terminateReadout, SpawnReader,
         StartTriggers, QuitReader, JoinReader
  <2> QED
    BY <2>1, <2>2, <2>3, <2>4, <1>u, <1>x, <1>a DEF writerVars
<1>8. CASE LoopStarted \/ LoopPlugins \/ LoopCheck \/ LoopReadoutFlush
           \/ LoopTerminated \/ LoopEnd
  <2>1. UNCHANGED <<stateVars, userVars, ec, readerVars, writerVars, daqMode, pipe,
                    delivered, lastMcst>> /\ link' \in {link, "closed"}
    BY <1>8 DEF LoopStarted, LoopPlugins, LoopCheck, LoopReadoutFlush,
       LoopTerminated, LoopEnd, devVars
  <2>2. future' \in {future, ec} /\ activity' \in {activity, "stop", "pause", "resume"}
    BY <1>8 DEF LoopStarted, LoopPlugins, LoopCheck, LoopReadoutFlush,
       LoopTerminated, LoopEnd, Begin
  <2>3. WorkTypes' /\ DeviceTypes'
    BY <2>1, <2>2, <1>0 DEF WorkTypes, DeviceTypes
  <2> QED
    BY <2>1, <2>3, <1>u, <1>r, <1>x, <1>a DEF writerVars
<1>9. CASE LoopReadout \/ ReaderRead
  <2>1. UNCHANGED <<stateVars, userVars, activity, future, writerVars, link, daqMode,
                    delivered, lastMcst>>
    BY <1>9 DEF LoopReadout, ReaderRead, loopVars
  <2>2. pipe' \in Nat
    BY <1>9 DEF LoopReadout, ReaderRead, Read, DeviceTypes
  <2>3. WorkTypes'
    BY <1>9, <1>0 DEF LoopReadout, ReaderRead, loopVars, WorkTypes, Errors
  <2>4. ReadTypes'
    <3>1. gotData' \in BOOLEAN
      <4>1. CASE LoopReadout
        BY <4>1, <1>0 DEF LoopReadout, readerVars, ReadTypes
      <4>2. CASE ReaderRead
        <5>1. PICK k \in Nat : gotData' = (k > 0)
          BY <4>2 DEF ReaderRead
        <5> QED
          BY <5>1
      <4> QED
        BY <1>9, <4>1, <4>2
    <3>2. /\ UNCHANGED <<readerAction, action>>
          /\ rpc' \in {rpc, "flush"}
      BY <1>9 DEF LoopReadout, ReaderRead, readerVars
    <3> QED
      BY <3>1, <3>2, <1>0 DEF ReadTypes
  <2> QED
    BY <2>1, <2>2, <2>3, <2>4, <1>u, <1>x, <1>a DEF DeviceTypes, writerVars
<1>10. ASSUME UNCHANGED <<stateVars, userVars, activity, ec, future, readerVars,
                          writerVars, devVars>>
       PROVE  ControlTypes' /\ DeviceTypes'
  BY <1>10, <1>u, <1>w, <1>r, <1>x, <1>d, <1>a DEF writerVars
<1>11. CASE LoopPause \/ LoopResume \/ LoopStop
  BY <1>11, <1>4, <1>10 DEF LoopPause, LoopResume, LoopStop, PauseResumeSection,
     LoopFlush, IfWriterRunning, maybePutBackSnoopBuffer, StopSentinel, StopJoin,
     StopRelease, States
<1>12. CASE ReaderLoad \/ ReaderFlush
  <2>1. UNCHANGED <<stateVars, userVars, activity, ec, future, writerVars, devVars>>
    BY <1>12 DEF ReaderLoad, ReaderFlush, loopVars
  <2>2. ReadTypes'
    BY <1>12, <1>0 DEF ReaderLoad, ReaderFlush, ReadTypes
  <2> QED
    BY <2>1, <2>2, <1>u, <1>w, <1>x, <1>d, <1>a DEF writerVars
<1>13. CASE WriterNext
  <2>1. UNCHANGED <<stateVars, userVars, activity, ec, future, readerVars, devVars>>
    BY <1>13 DEF WriterNext, WriterStart, WriterDequeue, WriterWrite, WriterThrow,
       WriterFinish, loopVars
  <2>2. WriteTypes'
    <3>1. eptr' \in BOOLEAN
      BY <1>13, <1>0 DEF WriterNext, WriterStart, WriterDequeue, WriterWrite,
         WriterThrow, WriterFinish, WriteTypes
    <3> QED
      BY <3>1, <1>13, <1>0 DEF WriterNext, WriterStart, WriterDequeue, WriterWrite,
         WriterThrow, WriterFinish, WriteTypes
  <2> QED
    BY <2>1, <2>2, <1>u, <1>w, <1>r, <1>d, <1>a
<1>14. CASE Environment
  <2>1. UNCHANGED <<stateVars, userVars, activity, ec, future, readerVars, writerVars>>
    BY <1>14 DEF Environment, SnoopTake, Trigger, LinkLost, loopVars
  <2>2. DeviceTypes'
    BY <1>14, <1>d DEF Environment, SnoopTake, Trigger, LinkLost, DeviceTypes
  <2> QED
    BY <2>1, <2>2, <1>u, <1>w, <1>r, <1>x, <1>a DEF writerVars
<1> QED
  BY <1>1, <1>2, <1>3, <1>5, <1>6, <1>7, <1>8, <1>9, <1>11, <1>12, <1>13, <1>14
     DEF Next, LoopNext, ReaderNext

-----------------------------------------------------------------------------
(* Draining the MVLC: pause and stop.                                      *)

StartPcs  == {"SetRunning", "DesireRunning", "StartSpawn", "StartTriggers",
              "StartMcst", "StartDaq", "StartQuit", "StartJoin", "Started"}
ResumePcs == {"ResumeSection", "ResumeFlush", "SetResumed", "DesireResumed"}

\* What the worker is doing goes with its place; in the loop it reads data and
\* is paused only where state says so.
ActivityInv ==
    /\ lpc \in StartPcs \cup ResumePcs \cup {"CheckPause", "Readout", "ReadoutFlush"} =>
         activity \in {"start", "resume"}
    /\ lpc \in {"PauseSection", "PauseFlush", "SetPaused", "DesirePaused"} =>
         activity = "pause"
    /\ lpc \in {"DesirePaused", "Plugins", "Check", "CheckStop", "Invalid", "LoopEnd"} =>
         activity # "stop" /\ (activity = "pause" => state = "Paused")

\* A connection that is lost holds nothing; only such a one is closed.
LinkInv ==
    /\ link # "up" => pipe = 0
    /\ lpc = "ReadoutFlush" /\ ec = "ConnectionError" => link # "up"

\* The asynchronous reader of terminateReadout() reads until DAQ mode is off,
\* and after that until a read that was begun later finds nothing.
TermInv ==
    /\ lpc \in {"TermMcst", "TermDaq", "TermQuit"} =>
         /\ readerAction = "Run" /\ rpc \in {"loop", "read", "flush"}
         /\ rpc \in {"read", "flush"} => action = "Run"
    /\ lpc = "TermQuit" /\ ec = "ok" => ~daqMode
    /\ lpc = "TermJoin" /\ ec = "ok" =>
         /\ readerAction = "QuitWhenEmpty" /\ ~daqMode
         /\ rpc = "flush" /\ action = "QuitWhenEmpty" /\ ~gotData => pipe = 0
         /\ rpc = "done" => pipe = 0

DrainInv == ActivityInv /\ LinkInv /\ TermInv /\ Drained

\* Initially nothing is under way.
LEMMA DrainInit == Init => DrainInv
  BY DEF Init, DrainInv, ActivityInv, LinkInv, TermInv, Drained, StartPcs, ResumePcs

\* Every step keeps ActivityInv.
LEMMA ActivityStep == ControlTypes /\ ActivityInv /\ [Next]_vars => ActivityInv'
<1> SUFFICES ASSUME ControlTypes, ActivityInv, [Next]_vars PROVE ActivityInv'
  OBVIOUS
<1> USE DEF ActivityInv, StartPcs, ResumePcs
<1>1. CASE UNCHANGED vars \/ ReaderNext \/ WriterNext \/ Environment
  <2>1. UNCHANGED <<lpc, activity, state>>
    BY <1>1 DEF vars, loopVars, stateVars, ReaderNext, ReaderLoad, ReaderRead,
       ReaderFlush, WriterNext, WriterStart, WriterDequeue, WriterWrite, WriterThrow,
       WriterFinish, Environment, SnoopTake, Trigger, LinkLost
  <2> QED
    BY <2>1
<1>2. CASE UserNext
  <2>1. /\ activity' = activity
        /\ state' = state \/ state = "Idle"
        /\ lpc' \in {lpc, "Redirect"}
    BY <1>2 DEF UserNext, FacadeStart, UserStart, UserStartDesired,
       UserStartJoin, UserFuture, UserStop, UserPause, UserResume, Check,
       UserDesire, FacadeStopped, FacadeDestroy, loopVars, stateVars
  <2> QED
    BY <2>1
<1>3. CASE LoopRedirect \/ LoopAbort \/ LoopSpawn \/ LoopSetRunning
  BY <1>3 DEF LoopRedirect, LoopAbort, LoopSpawn, LoopSetRunning, SetState,
     SetDesired
<1>4. CASE startReadout
  BY <1>4 DEF startReadout, SpawnReader, StartTriggers, McstCommands, DaqMode,
     QuitReader, JoinReader
<1>5. CASE terminateReadout
  BY <1>5 DEF terminateReadout, SpawnReader, McstCommands, DaqMode, QuitReader,
     JoinReader
<1>6. CASE LoopStarted \/ LoopPlugins \/ LoopReadout \/ LoopReadoutFlush
           \/ LoopTerminated \/ LoopEnd
  <2>1. state' = state
    BY <1>6 DEF LoopStarted, LoopPlugins, LoopReadout, LoopReadoutFlush,
       LoopTerminated, LoopEnd, stateVars
  <2> QED
    BY <2>1, <1>6 DEF LoopStarted, LoopPlugins, LoopReadout, Begin,
       LoopReadoutFlush, LoopTerminated, LoopEnd
<1>7. CASE LoopCheck
  <2>1. state' = state /\ activity \in {"start", "pause", "resume", "stop"}
    BY <1>7 DEF LoopCheck, stateVars, ControlTypes
  <2> QED
    BY <2>1, <1>7 DEF LoopCheck, Begin
<1>8. CASE LoopPause \/ LoopResume
  BY <1>8 DEF LoopPause, LoopResume, PauseResumeSection, LoopFlush, SetState,
     SetDesired, stateVars
<1>9. CASE LoopStop
  BY <1>9 DEF LoopStop, SetState, SetDesired, PauseResumeSection, LoopFlush,
     IfWriterRunning, maybePutBackSnoopBuffer, StopSentinel, StopJoin, StopRelease
<1> QED
  BY <1>1, <1>2, <1>3, <1>4, <1>5, <1>6, <1>7, <1>8, <1>9 DEF Next, LoopNext

\* Every step keeps LinkInv.
LEMMA LinkStep ==
  DeviceTypes /\ LinkInv /\ [Next]_vars => LinkInv'
<1> SUFFICES ASSUME DeviceTypes, LinkInv, [Next]_vars PROVE LinkInv'
  OBVIOUS
<1> USE DEF LinkInv
<1>1. CASE UNCHANGED vars \/ WriterNext \/ ReaderLoad \/ ReaderFlush \/ SnoopTake
  <2>1. UNCHANGED <<lpc, ec, link, pipe>>
    BY <1>1 DEF vars, loopVars, devVars, ReaderLoad, ReaderFlush, WriterNext,
       WriterStart, WriterDequeue, WriterWrite, WriterThrow, WriterFinish, SnoopTake
  <2> QED
    BY <2>1
<1>2. CASE Trigger \/ LinkLost
  BY <1>2 DEF Trigger, LinkLost, loopVars
<1>3. CASE UserNext
  <2>1. /\ UNCHANGED <<link, pipe, ec>> /\ lpc' \in {lpc, "Redirect"}
    BY <1>3 DEF UserNext, FacadeStart, UserStart, UserStartDesired,
       UserStartJoin, UserFuture, UserStop, UserPause, UserResume, Check,
       UserDesire, FacadeStopped, FacadeDestroy, loopVars, devVars
  <2> QED
    BY <2>1
<1>4. CASE LoopReadout \/ ReaderRead
  <2>1. link # "up" => pipe' = 0
    BY <1>4 DEF LoopReadout, ReaderRead, Read, DeviceTypes
  <2>2. link' = link /\ (ReaderRead => UNCHANGED <<lpc, ec>>)
    BY <1>4 DEF LoopReadout, ReaderRead, loopVars
  <2> QED
    BY <2>1, <2>2, <1>4 DEF LoopReadout
<1>5. CASE LoopReadoutFlush
  BY <1>5 DEF LoopReadoutFlush, Begin
<1>6. CASE LoopRedirect \/ LoopAbort \/ LoopSpawn \/ LoopSetRunning
  <2>1. UNCHANGED <<link, pipe>> /\ lpc' # "ReadoutFlush"
    BY <1>6 DEF LoopRedirect, LoopAbort, LoopSpawn, LoopSetRunning, SetState,
       SetDesired, devVars
  <2> QED
    BY <2>1
<1>7. CASE startReadout \/ terminateReadout
  <2>1. UNCHANGED <<link, pipe>> /\ lpc' # "ReadoutFlush"
    BY <1>7 DEF startReadout, terminateReadout, SpawnReader, StartTriggers,
       McstCommands, DaqMode, QuitReader, JoinReader, devVars
  <2> QED
    BY <2>1
<1>8. CASE LoopStarted \/ LoopPlugins \/ LoopCheck \/ LoopTerminated \/ LoopEnd
  <2>1. UNCHANGED <<link, pipe>> /\ lpc' # "ReadoutFlush"
    BY <1>8 DEF LoopStarted, LoopPlugins, LoopCheck, LoopTerminated, LoopEnd, Begin,
       devVars
  <2> QED
    BY <2>1
<1>9. CASE LoopPause \/ LoopResume \/ LoopStop
  <2>1. UNCHANGED <<link, pipe>> /\ lpc' # "ReadoutFlush"
    BY <1>9 DEF LoopPause, LoopResume, LoopStop, SetState, SetDesired,
       PauseResumeSection, LoopFlush, IfWriterRunning, maybePutBackSnoopBuffer,
       StopSentinel, StopJoin, StopRelease, devVars
  <2> QED
    BY <2>1
<1> QED
  BY <1>1, <1>2, <1>3, <1>4, <1>5, <1>6, <1>7, <1>8, <1>9
     DEF Next, LoopNext, ReaderNext, Environment

\* While the worker is not in terminateReadout() TermInv asks nothing.
LEMMA TermElsewhere ==
  ASSUME lpc' \notin {"TermMcst", "TermDaq", "TermQuit", "TermJoin"}
  PROVE  TermInv'
  BY DEF TermInv

\* Every step keeps TermInv.
LEMMA TermStep ==
  ControlTypes /\ DeviceTypes /\ ThreadInv /\ LinkInv /\ TermInv /\ [Next]_vars
  => TermInv'
<1> SUFFICES ASSUME ControlTypes, DeviceTypes, ThreadInv, LinkInv, TermInv, [Next]_vars
             PROVE  TermInv'
  OBVIOUS
<1>0. UNCHANGED <<lpc, ec, readerVars, daqMode, pipe>> => TermInv'
  BY DEF TermInv, readerVars
<1>1. CASE UNCHANGED vars \/ WriterNext \/ SnoopTake
  BY <1>0, <1>1 DEF vars, loopVars, devVars, WriterNext, WriterStart, WriterDequeue,
     WriterWrite, WriterThrow, WriterFinish, SnoopTake
<1>2. CASE Trigger
  <2>1. daqMode /\ UNCHANGED <<lpc, ec, readerVars, daqMode>>
    BY <1>2 DEF Trigger, loopVars
  <2> QED
    BY <2>1 DEF TermInv, readerVars
<1>3. CASE LinkLost
  <2>1. pipe' = 0 /\ UNCHANGED <<lpc, ec, readerVars, daqMode>>
    BY <1>3 DEF LinkLost, loopVars
  <2> QED
    BY <2>1 DEF TermInv, readerVars
<1>4. CASE FacadeStart \/ FacadeStopped
  <2>1. UNCHANGED <<lpc, ec, readerVars, pipe>> /\ (~daqMode => ~daqMode')
    BY <1>4 DEF FacadeStart, FacadeStopped, WriteDaqMode, loopVars
  <2> QED
    BY <2>1 DEF TermInv, readerVars
<1>5. CASE UserNext /\ ~(FacadeStart \/ FacadeStopped)
  <2>1. UNCHANGED <<ec, readerVars, daqMode, pipe>> /\ lpc' \in {lpc, "Redirect"}
    BY <1>5 DEF UserNext, UserStart, UserStartDesired, UserStartJoin, UserFuture,
       UserStop, UserPause, UserResume, Check, UserDesire, FacadeDestroy, loopVars,
       devVars
  <2> QED
    BY <2>1, <1>0, TermElsewhere
<1>6. CASE LoopRedirect \/ LoopAbort \/ LoopSpawn \/ LoopSetRunning \/ startReadout
  <2>1. lpc' \notin {"TermMcst", "TermDaq", "TermQuit", "TermJoin"}
    BY <1>6 DEF LoopRedirect, LoopAbort, LoopSpawn, LoopSetRunning, SetState,
       SetDesired, startReadout, SpawnReader, StartTriggers, McstCommands, DaqMode,
       QuitReader, JoinReader
  <2> QED
    BY <2>1, TermElsewhere
<1>7. CASE LoopStarted \/ LoopPlugins \/ LoopCheck \/ LoopReadout \/ LoopReadoutFlush
           \/ LoopTerminated \/ LoopEnd
  <2>1. lpc' \notin {"TermMcst", "TermDaq", "TermQuit", "TermJoin"}
    BY <1>7 DEF LoopStarted, LoopPlugins, LoopCheck, LoopReadout, LoopReadoutFlush,
       LoopTerminated, LoopEnd, Begin
  <2> QED
    BY <2>1, TermElsewhere
<1>8. CASE LoopPause \/ LoopResume \/ LoopStop
  <2>1. lpc' \notin {"TermMcst", "TermDaq", "TermQuit", "TermJoin"}
    BY <1>8 DEF LoopPause, LoopResume, LoopStop, SetState, SetDesired,
       PauseResumeSection, LoopFlush, IfWriterRunning, maybePutBackSnoopBuffer,
       StopSentinel, StopJoin, StopRelease
  <2> QED
    BY <2>1, TermElsewhere
<1>9. CASE terminateReadout
  <2>1. CASE SpawnReader("TermSpawn", "TermMcst")
    BY <2>1 DEF SpawnReader, TermInv
  <2>2. CASE McstCommands("TermMcst", "start", "TermDaq", "TermQuit")
    <3>1. /\ lpc = "TermMcst" /\ UNCHANGED readerVars
          /\ lpc' = "TermDaq" \/ (lpc' = "TermQuit" /\ ec' = "ConnectionError")
      BY <2>2 DEF McstCommands
    <3> QED
      BY <3>1 DEF TermInv, readerVars
  <2>3. CASE DaqMode("TermDaq", FALSE, "TermQuit")
    <3>1. lpc = "TermDaq" /\ UNCHANGED readerVars /\ lpc' = "TermQuit"
      BY <2>3 DEF DaqMode
    <3>2. ec' = "ok" => ~daqMode'
      BY <2>3 DEF DaqMode, WriteDaqMode
    <3> QED
      BY <3>1, <3>2 DEF TermInv, readerVars
  <2>4. CASE QuitReader("TermQuit", IF ec = "ok" THEN "QuitWhenEmpty" ELSE "Quit",
                        "TermJoin")
    <3>1. /\ lpc = "TermQuit" /\ lpc' = "TermJoin"
          /\ ec = "ok" => readerAction' = "QuitWhenEmpty"
          /\ UNCHANGED <<ec, rpc, action, gotData, daqMode, pipe>>
      BY <2>4 DEF QuitReader, devVars
    <3> QED
      BY <3>1 DEF TermInv
  <2>5. CASE JoinReader("TermJoin", "Terminated")
    BY <2>5, TermElsewhere DEF JoinReader
  <2> QED
    BY <1>9, <2>1, <2>2, <2>3, <2>4, <2>5 DEF terminateReadout
<1>10. CASE ReaderLoad
  <2>1. /\ rpc = "loop" /\ action' = readerAction
        /\ rpc' = IF readerAction = "Quit" THEN "done" ELSE "read"
        /\ UNCHANGED <<lpc, ec, readerAction, gotData, daqMode, pipe>>
    BY <1>10 DEF ReaderLoad, loopVars, devVars
  <2> QED
    BY <2>1 DEF TermInv
<1>11. CASE ReaderRead
  <2>1. /\ rpc = "read" /\ rpc' = "flush"
        /\ UNCHANGED <<lpc, ec, readerAction, action, daqMode>>
    BY <1>11 DEF ReaderRead, loopVars
  <2>2. ~gotData' => pipe' = 0
    <3>1. PICK k \in 0..pipe : Read(k) /\ gotData' = (k > 0)
      BY <1>11 DEF ReaderRead
    <3>2. ASSUME ~gotData' PROVE pipe' = 0
      <4>0. ~(k > 0)
        BY <3>1, <3>2
      <4>1. k = 0
        BY <4>0
      <4>2. pipe = 0
        BY <3>1, <4>1 DEF Read, LinkInv, DeviceTypes
      <4> QED
        BY <3>1, <4>1, <4>2 DEF Read
    <3> QED
      BY <3>2
  <2> QED
    BY <2>1, <2>2 DEF TermInv
<1>12. CASE ReaderFlush
  <2>1. /\ rpc = "flush"
        /\ rpc' = IF action = "QuitWhenEmpty" /\ ~gotData THEN "done" ELSE "loop"
        /\ UNCHANGED <<lpc, ec, readerAction, action, gotData, daqMode, pipe>>
    BY <1>12 DEF ReaderFlush, loopVars, devVars
  <2> QED
    BY <2>1 DEF TermInv
<1> QED
  BY <1>1, <1>2, <1>3, <1>4, <1>5, <1>6, <1>7, <1>8, <1>9, <1>10, <1>11, <1>12
     DEF Next, LoopNext, ReaderNext, Environment

\* Every step keeps Drained.
LEMMA DrainedStep ==
  DeviceTypes /\ ThreadInv /\ DrainInv /\ [Next]_vars => Drained'
<1> SUFFICES ASSUME DeviceTypes, ThreadInv, DrainInv, [Next]_vars PROVE Drained'
  OBVIOUS
<1> DEFINE Exempt == TermPcs \cup {"SetStopping", "DesireStopping", "exited",
                                   "Redirect", "Abort", "AbortDesired", "Spawn"}
<1>0. ASSUME UNCHANGED <<activity, ec>>, lpc' = lpc \/ lpc' \in Exempt \/ lpc \notin Exempt,
             ~daqMode /\ pipe = 0 => ~daqMode' /\ pipe' = 0
      PROVE  Drained'
  BY <1>0 DEF DrainInv, Drained
<1>e. lpc' \in Exempt => Drained'
  BY DEF Drained
<1>a. activity' \in {"start", "resume"} => Drained'
  BY DEF Drained
<1>b. lpc \in StartPcs \cup ResumePcs \cup {"CheckPause", "Readout", "ReadoutFlush"} =>
        activity \in {"start", "resume"}
  BY DEF DrainInv, ActivityInv
<1> HIDE DEF Exempt
<1>1. CASE UNCHANGED vars \/ WriterNext \/ SnoopTake \/ ReaderLoad \/ ReaderFlush
  <2>1. UNCHANGED <<lpc, activity, ec, daqMode, pipe>>
    BY <1>1 DEF vars, loopVars, devVars, WriterNext, WriterStart, WriterDequeue,
       WriterWrite, WriterThrow, WriterFinish, SnoopTake, ReaderLoad, ReaderFlush
  <2> QED
    BY <2>1, <1>0
<1>2. CASE Trigger \/ LinkLost
  <2>1. /\ UNCHANGED <<lpc, activity, ec, daqMode>>
        /\ daqMode \/ pipe' = 0
    BY <1>2 DEF Trigger, LinkLost, loopVars
  <2> QED
    BY <2>1, <1>0
<1>3. CASE FacadeStart \/ FacadeStopped
  <2>1. UNCHANGED <<lpc, activity, ec, pipe>> /\ (~daqMode => ~daqMode')
    BY <1>3 DEF FacadeStart, FacadeStopped, WriteDaqMode, loopVars
  <2> QED
    BY <2>1, <1>0
<1>4. CASE UserNext /\ ~(FacadeStart \/ FacadeStopped)
  <2>1. /\ UNCHANGED <<activity, ec, daqMode, pipe>>
        /\ lpc' = lpc \/ lpc' \in Exempt
    BY <1>4 DEF UserNext, UserStart, UserStartDesired, UserStartJoin, UserFuture,
       UserStop, UserPause, UserResume, Check, UserDesire, FacadeDestroy, loopVars,
       devVars, Exempt
  <2> QED
    BY <2>1, <1>0
<1>5. CASE LoopRedirect \/ LoopAbort
  <2>1. lpc' \in Exempt
    BY <1>5 DEF LoopRedirect, LoopAbort, SetState, SetDesired, Exempt
  <2> QED
    BY <2>1, <1>e
<1>6. CASE LoopSpawn
  BY <1>6, <1>a DEF LoopSpawn
<1>7. CASE LoopSetRunning \/ startReadout
  <2>1. activity' = activity /\ lpc \in StartPcs
    BY <1>7 DEF LoopSetRunning, SetState, SetDesired, startReadout, SpawnReader,
       StartTriggers, McstCommands, DaqMode, QuitReader, JoinReader, StartPcs
  <2> QED
    BY <2>1, <1>a, <1>b
<1>8. CASE terminateReadout
  <2>1. CASE JoinReader("TermJoin", "Terminated")
    <3>1. lpc = "TermJoin" /\ rpc = "done" /\ UNCHANGED <<ec, daqMode, pipe>>
      BY <2>1 DEF JoinReader, devVars
    <3> QED
      BY <3>1 DEF DrainInv, TermInv, Drained
  <2>2. CASE lpc' \in TermPcs
    BY <2>2, <1>e DEF Exempt
  <2> QED
    BY <1>8, <2>1, <2>2 DEF terminateReadout, SpawnReader, McstCommands, DaqMode,
       QuitReader, TermPcs
<1>9. CASE LoopStarted
  <2>1. lpc = "Started" /\ (activity' = activity \/ lpc' = "SetStopping")
    BY <1>9 DEF LoopStarted, Begin
  <2> QED
    BY <2>1, <1>a, <1>b, <1>e DEF StartPcs, Exempt
<1>10. CASE LoopPlugins \/ LoopCheck \/ LoopTerminated \/ LoopEnd
  <2>1. UNCHANGED <<ec, daqMode, pipe>> /\ lpc \notin Exempt
    BY <1>10 DEF LoopPlugins, LoopCheck, LoopTerminated, LoopEnd, devVars, Exempt,
       TermPcs
  <2>2. activity' = activity \/ lpc' \in Exempt \/ activity' = "resume"
    BY <1>10 DEF LoopPlugins, LoopCheck, LoopTerminated, LoopEnd, Begin, Exempt,
       TermPcs
  <2> QED
    BY <2>1, <2>2, <1>0, <1>a, <1>e
<1>11. CASE LoopReadout
  <2>1. lpc = "Readout" /\ activity' = activity
    BY <1>11 DEF LoopReadout
  <2> QED
    BY <2>1, <1>a, <1>b
<1>12. CASE LoopReadoutFlush
  <2>1. lpc = "ReadoutFlush" /\ (activity' = activity \/ lpc' = "SetStopping")
    BY <1>12 DEF LoopReadoutFlush, Begin
  <2> QED
    BY <2>1, <1>a, <1>b, <1>e DEF Exempt
<1>13. CASE LoopPause \/ LoopResume
  <2>1. UNCHANGED <<activity, ec, daqMode, pipe>> /\ lpc \notin Exempt
    BY <1>13 DEF LoopPause, LoopResume, SetState, SetDesired, PauseResumeSection,
       LoopFlush, devVars, Exempt, TermPcs
  <2> QED
    BY <2>1, <1>0
<1>14. CASE LoopStop
  <2>1. UNCHANGED <<activity, ec, daqMode, pipe>>
    BY <1>14 DEF LoopStop, SetState, SetDesired, PauseResumeSection, LoopFlush,
       IfWriterRunning, maybePutBackSnoopBuffer, StopSentinel, StopJoin, StopRelease,
       devVars
  <2>2. lpc \notin Exempt \/ lpc' \in Exempt
    BY <1>14 DEF LoopStop, SetState, SetDesired, PauseResumeSection, LoopFlush,
       IfWriterRunning, maybePutBackSnoopBuffer, StopSentinel, StopJoin, StopRelease,
       Exempt, TermPcs
  <2> QED
    BY <2>1, <2>2, <1>0
<1>15. CASE ReaderRead
  <2>1. lpc \in ReaderPcs /\ UNCHANGED <<lpc, activity>>
    BY <1>15 DEF ReaderRead, loopVars, ThreadInv, OneReader
  <2>2. lpc' \in Exempt \/ lpc \in StartPcs
    BY <2>1 DEF ReaderPcs, Exempt, TermPcs, StartPcs
  <2> QED
    BY <2>1, <2>2, <1>a, <1>b, <1>e
<1> QED
  BY <1>1, <1>2, <1>3, <1>4, <1>5, <1>6, <1>7, <1>8, <1>9, <1>10, <1>11, <1>12,
     <1>13, <1>14, <1>15 DEF Next, LoopNext, ReaderNext, Environment

-----------------------------------------------------------------------------
\* The inductive invariant.
ReadoutInv ==
    /\ ControlTypes /\ DeviceTypes /\ ThreadInv /\ BufferInv
    /\ RunInv /\ FileInv /\ DrainInv

\* It holds initially and every step keeps it.
LEMMA ReadoutInvariant == Spec => []ReadoutInv
<1>1. Init => ReadoutInv
  BY ControlInit, ThreadInit, BufferInit, RunInit, FileInit, DrainInit DEF ReadoutInv
<1>2. ReadoutInv /\ [Next]_vars => ReadoutInv'
  BY ControlStep, ThreadStep, BufferStep, RunStep, FileStep, ActivityStep, LinkStep,
     TermStep, DrainedStep DEF ReadoutInv, DrainInv
<1> QED
  BY <1>1, <1>2, PTL DEF Spec

\* A run that was recorded without an error is recorded completely.
LEMMA RunsComplete == ReadoutInv => RunRecorded
<1> SUFFICES ASSUME ReadoutInv, WriterStartsFirst, lpc = "Joined", lfh, ~eptr
             PROVE  Recorded(sections)
  BY DEF RunRecorded
<1>1. wpc \in {"none", "done"}
  BY DEF ReadoutInv, ThreadInv, NoWriterPcs
<1>2. Recording /\ Good
  BY <1>1 DEF Recording, Good
<1>3. lfFilled = <<>> /\ wbuf = <<>> /\ out = <<>>
  BY <1>1, <1>2 DEF ReadoutInv, RunInv, ReturnInv, NothingLeft, WriterInv, OutInv,
     DroppedPcs
<1>4. Len(lfFilled) = 0 /\ Len(wbuf) = 0 /\ Len(out) = 0 /\ sections \in Nat
  BY <1>3 DEF ReadoutInv, BufferInv, BufferTypes
<1>5. PICK n \in 0..sections : Recorded(n) /\ ChainFrom(n)
  BY <1>2 DEF ReadoutInv, FileInv
<1>6. PICK P \in [0..Len(lfFilled) -> 0..sections] : P[0] = n + Len(wbuf) /\ Chain(P)
  BY <1>5 DEF ChainFrom
<1>7. P[Len(lfFilled)] + Len(out) = sections
  BY <1>6 DEF Chain
<1>8. n = sections
  BY <1>4, <1>6, <1>7
<1> QED
  BY <1>5, <1>8

\* The assertion at the end of loop(): when the writer has been joined all
\* listfile buffers are back in the empty queue, unless a write failed.
LEMMA BuffersReturned == ReadoutInv => AllBuffersReturned
<1> SUFFICES ASSUME ReadoutInv, ~WriteMayFail, lpc = "Joined"
             PROVE  lfEmpty = ListfileWriterBufferCount
  BY DEF AllBuffersReturned
<1>1. lfFilled = <<>> /\ Len(lfFilled) = 0 /\ wpc # "write"
  BY DEF ReadoutInv, ThreadInv, RunInv, ReturnInv, Good, NothingLeft, NoWriterPcs
<1> QED
  BY <1>1 DEF ReadoutInv, BufferInv, BufferTypes, BuffersConserved

\* For every way the readout is used and whatever fails: the listfile is a
\* gapless prefix of what was produced, it is complete when a run has ended
\* without a writer error, the writer returns its buffers, and pausing or
\* stopping drains the MVLC.
THEOREM RunsTheorem == Spec => []RunsRecorded
<1>1. ReadoutInv => TypeOK
  BY DEF ReadoutInv, BufferInv, FileInv, TypeOK
<1>2. ReadoutInv => ListfileIsPrefix
  BY DEF ReadoutInv, FileInv, ListfileIsPrefix
<1>3. ReadoutInv => Drained
  BY DEF ReadoutInv, DrainInv
<1>4. ReadoutInv => RunsRecorded
  BY <1>1, <1>2, <1>3, RunsComplete, BuffersReturned DEF RunsRecorded
<1> QED
  BY <1>4, ReadoutInvariant, PTL

=============================================================================
