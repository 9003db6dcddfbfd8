--------------------------- MODULE EventBuilder2 ---------------------------
(***************************************************************************)
(* class EventBuilder2 (event_builder2.cc): module data of one event is    *)
(* buffered per module with its time stamp, and data whose stamps lie in   *)
(* the match window of a reference stamp is put out as one event.          *)
(*                                                                         *)
(* Every public method holds the TicketMutex from start to end, so a call  *)
(* is one step; the loops of flush() are one step per round, during which  *)
(* no other call can start.  One enabled event is modelled, and one for    *)
(* which building is disabled.  Module data is its record number, whether  *)
(* it is empty, and its stamp.  assert() is compiled out.  The dt          *)
(* histograms and the counters no property speaks of are left out.         *)
(***************************************************************************)
EXTENDS Integers, Sequences, FiniteSets, SequencesExt

CONSTANTS
    ModuleConfigs,      \* sequence of [offset, window]
    TimestampMax,       \* 0x3fffffff in the code
    Inputs(_),          \* the events the readout may deliver at a time:
                        \*   per module [ts, empty], ts = None without stamp
    Steps,              \* by how much the time advances between two events
    StartTime,
    MaxRecords          \* bound: calls of recordModuleData()

ASSUME ConfigAssumption ==
    /\ ModuleConfigs \in Seq([offset : Int, window : Nat])
    /\ ModuleConfigs # <<>>
    /\ TimestampMax \in Nat
    /\ MaxRecords \in Nat /\ StartTime \in Nat

Modules == DOMAIN ModuleConfigs
TimestampHalf == TimestampMax \div 2
None == -1              \* std::nullopt
NoData == [n |-> 0, ts |-> None, empty |-> TRUE, shifts |-> 0, freed |-> FALSE]

VARIABLES
    moduleDatas,        \* per module, the buffered data
    allTimestamps,      \* candidates for reference stamps
    outputModuleData,   \* what the callback was given last
    flushing,           \* "no", "try" or "force": the loop under way
    inputHits, outputHits, discardsAge, discardsNoStamp, recordingFailed,
    now, records,       \* the readout: time, number of calls made
    recorded,           \* history: stamps of the calls
    built               \* history: the events put out

counters == <<inputHits, outputHits, discardsAge, discardsNoStamp, recordingFailed>>
vars == <<moduleDatas, allTimestamps, outputModuleData, flushing, counters,
          now, records, recorded, built>>

Init ==
    /\ moduleDatas = [m \in Modules |-> <<>>]
    /\ allTimestamps = <<>>
    /\ outputModuleData = [m \in Modules |-> NoData]
    /\ flushing = "no"
    /\ inputHits = [m \in Modules |-> 0] /\ outputHits = [m \in Modules |-> 0]
    /\ discardsAge = [m \in Modules |-> 0]
    /\ discardsNoStamp = 0 /\ recordingFailed = 0
    /\ now = StartTime /\ records = 0
    /\ recorded = <<>> /\ built = <<>>

-----------------------------------------------------------------------------
(* Stamps.                                                                 *)

\* Mutant: no wrap around.
MutAddOffset(ts, offset) == ts + offset

add_offset_to_timestamp(ts, offset) == (ts + offset) % (TimestampMax + 1)

\* An overflow is corrected by TimestampMax, one less than the period.
timestamp_difference(ts0, ts1) ==
    LET diff == ts0 - ts1
    IN  IF diff \in -TimestampHalf..TimestampHalf THEN diff
        ELSE IF diff < 0 THEN diff + TimestampMax ELSE diff - TimestampMax

\* Mutant: the whole window on either side.
MutMatch(tsMain, tsModule, window) ==
    LET diff == timestamp_difference(tsMain, tsModule)
    IN  IF diff \in -window..window THEN "in_window"
        ELSE IF diff >= 0 THEN "too_old" ELSE "too_new"

\* windowWidth * 0.5 is a floating point product.
timestamp_match(tsMain, tsModule, window) ==
    LET diff == timestamp_difference(tsMain, tsModule)
    IN  IF 2 * diff \in -window..window THEN "in_window"
        ELSE IF diff >= 0 THEN "too_old" ELSE "too_new"

-----------------------------------------------------------------------------
(* recordModuleData().                                                     *)

\* Mutant: the modules that are there are recorded.
MutRecord(data) ==
    [m \in Modules |-> IF m > Len(data) THEN moduleDatas[m]
        ELSE Append(moduleDatas[m],
            [n |-> records + 1, ts |-> data[m].ts, empty |-> data[m].empty,
             shifts |-> 0, freed |-> FALSE])]

\* record_module_data(): all modules or, when the number of them differs from
\* the configured one, none.
record_module_data(data) ==
    IF Len(data) # Len(ModuleConfigs) THEN moduleDatas
    ELSE [m \in Modules |-> Append(moduleDatas[m],
            [n |-> records + 1, ts |-> data[m].ts, empty |-> data[m].empty,
             shifts |-> 0, freed |-> FALSE])]

HasStamp(queue) == queue # <<>> /\ Last(queue).ts # None

\* Mutant: no offsets.
MutApplyOffsets(queues, count) == queues

\* The offset is applied to whatever is last in the queues: when nothing was
\* added or the additions were discarded, that is data of an earlier call.
ApplyOffsets(queues, count) ==
    [m \in Modules |->
        IF m <= count /\ HasStamp(queues[m])
        THEN [queues[m] EXCEPT ![Len(queues[m])] =
                [@ EXCEPT !.ts = add_offset_to_timestamp(@, ModuleConfigs[m].offset),
                          !.shifts = @ + 1]]
        ELSE queues[m]]

\* The first stamp there is stands in for missing ones.
AssignFiller(queues, stamps) ==
    [m \in Modules |->
        IF stamps # <<>> /\ queues[m] # <<>> /\ Last(queues[m]).ts = None
        THEN [queues[m] EXCEPT ![Len(queues[m])].ts = stamps[1]]
        ELSE queues[m]]

\* Mutant: events without any stamp are kept.
MutDiscardNoStamp(queues) == queues

\* An event none of whose modules has a stamp is taken out again.
DiscardNoStamp(queues) ==
    IF \A m \in Modules : ~HasStamp(queues[m])
    THEN [m \in Modules |-> Front(queues[m])] ELSE queues

\* The whole of Private::recordModuleData() for an enabled event.
recordModuleData(data) ==
    LET ok      == Len(data) = Len(ModuleConfigs)
        added   == record_module_data(data)
        kept    == IF ok THEN DiscardNoStamp(added) ELSE added
        shifted == ApplyOffsets(kept, Len(data))
        stamped == SelectSeq([m \in 1..Len(data) |-> m],
                             LAMBDA m : HasStamp(shifted[m]))
        stamps  == [i \in DOMAIN stamped |-> Last(shifted[stamped[i]]).ts]
    IN  /\ moduleDatas' = AssignFiller(shifted, stamps)
        /\ allTimestamps' = allTimestamps \o stamps
        /\ inputHits' = IF ok THEN [m \in Modules |-> inputHits[m] + 1]
                        ELSE inputHits
        /\ discardsNoStamp' = discardsNoStamp + (IF kept # added THEN 1 ELSE 0)
        /\ recordingFailed' = recordingFailed + (IF ok THEN 0 ELSE 1)

\* The readout delivers the next event.
Record ==
    /\ flushing = "no" /\ records < MaxRecords
    /\ \E data \in Inputs(now) :
        /\ recordModuleData(data)
        /\ recorded' = Append(recorded, data)
    /\ records' = records + 1
    /\ \E step \in Steps : now' = now + step
    /\ UNCHANGED <<outputModuleData, flushing, outputHits, discardsAge, built>>

\* The event for which building is disabled: straight to the callback.
RecordPassthrough ==
    /\ flushing = "no" /\ records < MaxRecords
    /\ records' = records + 1
    /\ built' = Append(built, [kind |-> "passthrough", upto |-> records + 1])
    /\ recorded' = Append(recorded, <<>>)
    /\ UNCHANGED <<moduleDatas, allTimestamps, outputModuleData, flushing,
                   counters, now>>

-----------------------------------------------------------------------------
(* flush().                                                                *)

Match(ref, m, data) == timestamp_match(ref, data.ts, ModuleConfigs[m].window)

\* checkModuleBuffers(): every buffered entry has a stamp.
checkModuleBuffers ==
    \A m \in Modules : \A i \in DOMAIN moduleDatas[m] : moduleDatas[m][i].ts # None

\* Mutant: one module with newer data is enough.
MutCanFlush(ref) ==
    \E m \in Modules : /\ moduleDatas[m] # <<>>
                       /\ Match(ref, m, Last(moduleDatas[m])) = "too_new"

\* Every module that has data has got some beyond the window of ref.
CanFlush(ref) ==
    /\ \A m \in Modules : moduleDatas[m] # <<>> =>
            Match(ref, m, Last(moduleDatas[m])) = "too_new"
    /\ \E m \in Modules : moduleDatas[m] # <<>>

\* What is left of a queue when its leading entries with P are popped.
DropWhile(queue, P(_)) ==
    LET first == CHOOSE i \in 1..(Len(queue) + 1) :
                    /\ i <= Len(queue) => ~P(queue[i])
                    /\ \A j \in 1..(i - 1) : P(queue[j])
    IN  SubSeq(queue, first, Len(queue))

PopTooOld(ref) ==
    [m \in Modules |-> DropWhile(moduleDatas[m],
                                 LAMBDA data : Match(ref, m, data) = "too_old")]

\* Hands the parts to the callback.  outputModuleData is updated for the
\* modules in `fresh' only.  The others keep the pointer and the size of the
\* last time, and the storage it points into has been given back.
Emit(ref, storage, fresh) ==
    /\ outputModuleData' = [m \in Modules |->
            IF m \in fresh THEN storage[m]
            ELSE [outputModuleData[m] EXCEPT !.freed = outputModuleData[m] # NoData]]
    /\ built' = Append(built, [kind |-> "matched", ref |-> ref, fresh |-> fresh,
                               parts |-> outputModuleData', upto |-> records])

\* Modules whose oldest entry is in the window of ref.
MatchedParts(ref, queues) ==
    [m \in Modules |-> queues[m] # <<>> /\ Match(ref, m, queues[m][1]) = "in_window"]

\* Mutant: the reference stamp stays.
MutPopReference(ref) == allTimestamps

\* Several modules may have had this very stamp.
PopReference(ref) == DropWhile(allTimestamps, LAMBDA ts : ts = ref)

\* Mutant: data that was put out stays in the buffer.
MutPopMatched(queues, matched) == queues

PopMatched(queues, matched) ==
    [m \in Modules |-> IF matched[m] THEN Tail(queues[m]) ELSE queues[m]]

\* One successful tryFlush().
tryFlush ==
    /\ flushing = "try" /\ checkModuleBuffers /\ allTimestamps # <<>>
    /\ LET ref     == allTimestamps[1]
           popped  == PopTooOld(ref)
           matched == MatchedParts(ref, popped)
           fresh   == {m \in Modules : matched[m] /\ ~popped[m][1].empty}
       IN  /\ CanFlush(ref)
           /\ allTimestamps' = PopReference(ref)
           /\ discardsAge' = [m \in Modules |-> discardsAge[m]
                                + Len(moduleDatas[m]) - Len(popped[m])]
           /\ outputHits' = [m \in Modules |-> outputHits[m]
                                + (IF matched[m] THEN 1 ELSE 0)]
           /\ moduleDatas' = PopMatched(popped, matched)
           /\ IF fresh # {} THEN Emit(ref, [m \in fresh |-> popped[m][1]], fresh)
              ELSE UNCHANGED <<outputModuleData, built>>
    /\ UNCHANGED <<flushing, inputHits, discardsNoStamp, recordingFailed,
                   now, records, recorded>>

\* The tryFlush() that returns false ends the loop.
tryFlushFails ==
    /\ flushing = "try"
    /\ checkModuleBuffers /\ allTimestamps # <<>> => ~CanFlush(allTimestamps[1])
    /\ flushing' = "no"
    /\ UNCHANGED <<moduleDatas, allTimestamps, outputModuleData, counters,
                   now, records, recorded, built>>

\* Mutant: the loop ends once one module has no more data.
MutForceFlush ==
    /\ flushing = "force"
    /\ IF \A m \in Modules : moduleDatas[m] # <<>>
       THEN /\ outputModuleData' = [m \in Modules |-> moduleDatas[m][1]]
            /\ built' = Append(built, [kind |-> "forced", ref |-> None,
                                       fresh |-> Modules, parts |-> outputModuleData',
                                       upto |-> records])
            /\ moduleDatas' = [m \in Modules |-> Tail(moduleDatas[m])]
            /\ outputHits' = [m \in Modules |-> outputHits[m] + 1]
            /\ UNCHANGED flushing
       ELSE /\ flushing' = "no"
            /\ UNCHANGED <<outputModuleData, built, moduleDatas, outputHits>>
    /\ UNCHANGED <<allTimestamps, inputHits, discardsAge, discardsNoStamp,
                   recordingFailed, now, records, recorded>>

\* One round of forceFlush(): the oldest entry of every module.  The stamps
\* are left alone.
forceFlush ==
    /\ flushing = "force"
    /\ LET fresh == {m \in Modules : moduleDatas[m] # <<>>}
       IN  IF fresh # {}
           THEN /\ outputModuleData' = [m \in Modules |-> IF m \in fresh
                                            THEN moduleDatas[m][1] ELSE NoData]
                /\ built' = Append(built, [kind |-> "forced", ref |-> None,
                                           fresh |-> fresh, parts |-> outputModuleData',
                                           upto |-> records])
                /\ moduleDatas' = [m \in Modules |-> IF m \in fresh
                                        THEN Tail(moduleDatas[m]) ELSE <<>>]
                /\ outputHits' = [m \in Modules |-> outputHits[m]
                                    + (IF m \in fresh THEN 1 ELSE 0)]
                /\ UNCHANGED flushing
           ELSE /\ flushing' = "no"
                /\ outputModuleData' = [m \in Modules |-> NoData]
                /\ UNCHANGED <<built, moduleDatas, outputHits>>
    /\ UNCHANGED <<allTimestamps, inputHits, discardsAge, discardsNoStamp,
                   recordingFailed, now, records, recorded>>

\* flush(force) is called.
flush ==
    /\ flushing = "no" /\ flushing' \in {"try", "force"}
    /\ UNCHANGED <<moduleDatas, allTimestamps, outputModuleData, counters,
                   now, records, recorded, built>>

FlushStep == tryFlush \/ tryFlushFails \/ forceFlush
Next == Record \/ RecordPassthrough \/ flush \/ FlushStep
Spec == Init /\ [][Next]_vars /\ WF_vars(FlushStep)

-----------------------------------------------------------------------------
(* Properties.                                                             *)

Data == [n : 0..MaxRecords, ts : None..TimestampMax,
         empty : BOOLEAN, shifts : 0..MaxRecords, freed : BOOLEAN]

TypeOK ==
    /\ \A m \in Modules : \A i \in DOMAIN moduleDatas[m] : moduleDatas[m][i] \in Data
    /\ \A i \in DOMAIN allTimestamps : allTimestamps[i] \in 0..TimestampMax
    /\ \A m \in Modules : outputModuleData[m] \in Data
    /\ flushing \in {"no", "try", "force"}
    /\ \A f \in {inputHits, outputHits, discardsAge} : \A m \in Modules : f[m] \in Nat
    /\ discardsNoStamp \in 0..MaxRecords /\ recordingFailed \in 0..MaxRecords

\* The parts of module m that reached the callback, whether new or not, then
\* what is still buffered.
Line(m) ==
    LET shown == SelectSeq(built, LAMBDA b : b.kind # "passthrough" /\ b.parts[m].n > 0)
    IN  [i \in DOMAIN shown |-> shown[i].parts[m]] \o moduleDatas[m]

\* The parts of a module reach the callback in the order they were recorded,
\* and none of them twice (tryFlush(), forceFlush()) - except that a module
\* without data in a matched event is shown with its previous part, where the
\* comment in tryFlush() promises zeros.  Such a part is always the latest
\* one of its module, and it points to storage that is gone.
FifoOnce ==
    \A m \in Modules : \A i \in 1..Len(Line(m)) :
        LET this == Line(m)[i] IN
        IF this.freed THEN i > 1 /\ this = [Line(m)[i - 1] EXCEPT !.freed = TRUE]
        ELSE i > 1 => Line(m)[i - 1].n < this.n

\* Nothing is lost uncounted: what went in is buffered, put out, or counted in
\* one of the discard counters (the sums dump_counters() prints).
Conserved ==
    \A m \in Modules : inputHits[m] = outputHits[m] + discardsAge[m]
                                        + discardsNoStamp + Len(moduleDatas[m])

\* tryFlush() gives up when a buffered entry lacks a stamp, so one such entry
\* would block the event for good: recordModuleData() leaves none behind.
BuffersStamped == checkModuleBuffers

\* The distance of two stamps on the circle of TimestampMax + 1 values.
Distance(a, b) ==
    LET d == (a - b) % (TimestampMax + 1)
    IN  IF d <= TimestampHalf THEN d ELSE TimestampMax + 1 - d

\* Every part of a matched event is within half a window of its reference
\* stamp, but for the parts shown again (FifoOnce).  The correction of overflows is off by one: across the wrap of the
\* stamps the window reaches one further.
Coincident ==
    \A i \in DOMAIN built : built[i].kind = "matched" =>
        \A m \in Modules : built[i].parts[m].n > 0 /\ ~built[i].parts[m].freed =>
            LET ts == built[i].parts[m].ts
                slack == IF ts - built[i].ref \in -TimestampHalf..TimestampHalf
                         THEN 0 ELSE 1
            IN  2 * (Distance(built[i].ref, ts) - slack) <= ModuleConfigs[m].window

\* The stamp a record gives a module after its offset.
Shifted(i, m) == add_offset_to_timestamp(recorded[i][m].ts, ModuleConfigs[m].offset)

Complete(i) == /\ Len(recorded[i]) = Len(ModuleConfigs)
               /\ \A m \in Modules : recorded[i][m].ts # None

\* The offsets bring the stamps of one event together, well apart from those
\* of other events; and all records are complete ones.
Separated ==
    \A i, j \in DOMAIN recorded : \A m, k \in Modules :
        /\ recorded[i] # <<>> => Complete(i)
        /\ recorded[i] # <<>> /\ recorded[j] # <<>> =>
                LET d == Distance(Shifted(i, m), Shifted(j, k))
                IN  IF i = j THEN 2 * d <= ModuleConfigs[m].window
                    ELSE d > ModuleConfigs[m].window

\* Data recorded together stays together: while the events are separated in
\* time, every matched event is exactly one recorded event, none of its parts
\* being one shown again.  (Events closer than that may be mixed.)
KeptTogether ==
    Separated => \A i \in DOMAIN built : built[i].kind = "matched" =>
        /\ built[i].fresh = Modules
        /\ \A m, k \in Modules : built[i].parts[m].n = built[i].parts[k].n

\* The records in which module m has a stamp of its own, and no later one is
\* behind an earlier one.
InOrder(m) ==
    \A i, j \in DOMAIN recorded :
        /\ recorded[i] # <<>> => Complete(i)
        /\ i < j /\ recorded[i] # <<>> /\ recorded[j] # <<>> =>
                timestamp_difference(Shifted(i, m), Shifted(j, m)) <= 0

\* tryFlush() waits for late modules: data that is recorded only after an event
\* was put out without data of its module would not have been in the window of
\* that event, provided that the stamps of the module come in order.
LateModuleAwaited ==
    \A i \in DOMAIN built : built[i].kind = "matched" =>
        \A m \in Modules \ built[i].fresh : InOrder(m) =>
            \A r \in (built[i].upto + 1)..Len(recorded) : recorded[r] # <<>> =>
                timestamp_match(built[i].ref, Shifted(r, m), ModuleConfigs[m].window)
                    # "in_window"

\* A forced flush leaves no data behind.
ForcedFlushEmpties ==
    [][flushing = "force" /\ flushing' = "no" =>
            \A m \in Modules : moduleDatas'[m] = <<>>]_vars

\* The loops of flush() end: a round that succeeds uses up a reference stamp
\* or data.
FlushTerminates == flushing # "no" ~> flushing = "no"

\* Every module's data leaves the builder in order and as new only once, with stamps
\* inside the match windows, together with the data recorded with it when events are
\* apart in time, without missing data that comes late, or is counted as discarded.  A
\* module without data in an event shows its previous part again (tryFlush()).
EventsBuilt == /\ TypeOK /\ FifoOnce /\ Conserved /\ BuffersStamped
               /\ Coincident /\ KeptTogether /\ LateModuleAwaited

\* flush() ends, and a forced one leaves nothing behind in the module buffers.
FlushDone == ForcedFlushEmpties /\ FlushTerminates
=============================================================================
