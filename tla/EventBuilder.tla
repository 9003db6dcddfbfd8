---------------------------- MODULE EventBuilder ----------------------------
(***************************************************************************)
(* class EventBuilder (event_builder.cc): events of several crates are     *)
(* recorded by one parser thread per crate and assembled by a builder      *)
(* thread around the time stamps of a main module.                         *)
(*                                                                         *)
(* Every method holds the TicketMutex from start to end, so that a call is *)
(* one step; the loop of buildEvents() is one step per assembled event,    *)
(* during which no other call can start.  One enabled event is modelled,   *)
(* and one for which building is disabled.  Data of a module is its number *)
(* in the crate, its stamp and its size in words.  assert() is compiled    *)
(* out.  Scores and the match counters are left out.                       *)
(***************************************************************************)
EXTENDS Integers, Sequences, FiniteSets, SequencesExt, FiniteSetsExt

CONSTANTS
    CrateSetups,            \* modules of each crate
    MainModule,             \* <<crate, module>>
    MatchWindows,           \* per linear module index, <<first, second>>
    MemoryLimit,            \* in words
    TimestampMax,           \* 0x3fffffff in the code
    CrateInputs(_, _),      \* what crate c may deliver as its n-th event:
                            \*   per module [ts, size]
    MaxEvents,              \* bound: events of each crate
    MaxDirect               \* bound: system and passed through events queued

Crates == DOMAIN CrateSetups

\* The constructor numbers the modules crate by crate.
getLinearModuleIndex(crate, module) ==
    module + FoldLeft(+, 0, SubSeq(CrateSetups, 1, crate - 1))

LinearModules == 1..FoldLeft(+, 0, CrateSetups)
MainIndex == getLinearModuleIndex(MainModule[1], MainModule[2])
TimestampHalf == TimestampMax \div 2
TimestampExtractionFailed == 4 * (TimestampMax + 1) - 1

VARIABLES
    moduleEventBuffers,     \* per linear module
    moduleMemCounters, moduleDiscardedEvents, moduleEmptyEvents,
    moduleInputHits, moduleOutputHits,
    systemEvents, passThroughEvents,    \* numbers of buffered ones
    building,               \* "no", "build" or "flush"
    taken,                  \* events recorded per crate
    assembled               \* history: events handed to the callback

ebCounters == <<moduleMemCounters, moduleDiscardedEvents, moduleEmptyEvents,
                moduleInputHits, moduleOutputHits>>
ebVars == <<moduleEventBuffers, ebCounters, systemEvents, passThroughEvents,
            building, taken, assembled>>

Zero == [m \in LinearModules |-> 0]

Init ==
    /\ moduleEventBuffers = [m \in LinearModules |-> <<>>]
    /\ moduleMemCounters = Zero /\ moduleDiscardedEvents = Zero
    /\ moduleEmptyEvents = Zero /\ moduleInputHits = Zero /\ moduleOutputHits = Zero
    /\ systemEvents = 0 /\ passThroughEvents = 0
    /\ building = "no" /\ taken = [c \in Crates |-> 0] /\ assembled = <<>>

-----------------------------------------------------------------------------

\* Mutant: the window is not reversed for modules ahead of the main one.
MutMatch(tsMain, tsModule, window) ==
    IF tsMain - tsModule > -window[1] THEN "too_old"
    ELSE IF tsModule - tsMain > 2 * window[2] THEN "too_new" ELSE "in_window"

\* An overflow is corrected by TimestampMax, one less than the period.
timestamp_match(tsMain, tsModule, window) ==
    LET d    == tsMain - tsModule
        diff == IF d \in -TimestampHalf..TimestampHalf THEN d
                ELSE IF d < 0 THEN d + TimestampMax ELSE d - TimestampMax
    IN  IF diff >= 0 /\ diff > -window[1] THEN "too_old"
        ELSE IF diff < 0 /\ -diff > window[2] THEN "too_new"
        ELSE "in_window"

\* Data without a stamp matches anything.
MatchResult(tsMain, m, event) ==
    IF event.ts = TimestampExtractionFailed THEN "in_window"
    ELSE timestamp_match(tsMain, event.ts, MatchWindows[m])

Words(buffer) == FoldLeft(LAMBDA sum, event : sum + event.size, 0, buffer)
getMemoryUsage == FoldFunction(+, 0, moduleMemCounters)

\* Mutant: the counters are left as they are.
MutDiscardAll ==
    [buffers |-> [m \in LinearModules |-> <<>>], mem |-> moduleMemCounters,
     discarded |-> [m \in LinearModules |->
        moduleDiscardedEvents[m] + Len(moduleEventBuffers[m])]]

discardAllEventData ==
    [buffers |-> [m \in LinearModules |-> <<>>], mem |-> Zero,
     discarded |-> [m \in LinearModules |->
        moduleDiscardedEvents[m] + Len(moduleEventBuffers[m])]]

\* At the memory limit all data is given up before the new data is recorded.
Limited ==
    IF getMemoryUsage >= MemoryLimit THEN discardAllEventData
    ELSE [buffers |-> moduleEventBuffers, mem |-> moduleMemCounters,
          discarded |-> moduleDiscardedEvents]

\* A crate's parser thread: modules without any data are counted and skipped.
recordEventData(c) ==
    /\ building = "no" /\ taken[c] < MaxEvents[c]
    /\ \E data \in CrateInputs(c, taken[c] + 1) :
        LET base     == getLinearModuleIndex(c, 1) - 1
            hit      == base + 1..base + Len(data)
            filled   == {m \in hit : data[m - base].size > 0}
            start    == Limited
            Event(m) == [n |-> taken[c] + 1, ts |-> data[m - base].ts,
                         size |-> data[m - base].size]
        IN  /\ moduleEventBuffers' = [m \in LinearModules |->
                    IF m \in filled THEN Append(start.buffers[m], Event(m))
                    ELSE start.buffers[m]]
            /\ moduleMemCounters' = [m \in LinearModules |->
                    start.mem[m] + (IF m \in filled THEN Event(m).size ELSE 0)]
            /\ moduleDiscardedEvents' = start.discarded
            /\ moduleInputHits' = [m \in LinearModules |->
                    moduleInputHits[m] + (IF m \in hit THEN 1 ELSE 0)]
            /\ moduleEmptyEvents' = [m \in LinearModules |->
                    moduleEmptyEvents[m] + (IF m \in hit \ filled THEN 1 ELSE 0)]
    /\ taken' = [taken EXCEPT ![c] = @ + 1]
    /\ UNCHANGED <<moduleOutputHits, systemEvents, passThroughEvents, building,
                   assembled>>

\* The event for which building is disabled, and system events: queued for the
\* builder thread.
recordPassThrough ==
    /\ building = "no" /\ passThroughEvents < MaxDirect
    /\ passThroughEvents' = passThroughEvents + 1
    /\ UNCHANGED <<moduleEventBuffers, ebCounters, systemEvents, building, taken, assembled>>

recordSystemEvent ==
    /\ building = "no" /\ systemEvents < MaxDirect
    /\ systemEvents' = systemEvents + 1
    /\ UNCHANGED <<moduleEventBuffers, ebCounters, passThroughEvents, building, taken, assembled>>

\* buildEvents() puts out the system events first, then those that are passed
\* through, then the assembled ones.
buildEvents ==
    /\ building = "no" /\ building' \in {"build", "flush"}
    /\ systemEvents' = 0 /\ passThroughEvents' = 0
    /\ UNCHANGED <<moduleEventBuffers, ebCounters, taken, assembled>>

CanBuild ==
    /\ moduleEventBuffers[MainIndex] # <<>>
    /\ building = "flush" \/ \A m \in LinearModules : moduleEventBuffers[m] # <<>>

\* A buffer without its leading events that are too old.
WithoutTooOld(m, tsMain) ==
    LET b     == moduleEventBuffers[m]
        first == CHOOSE i \in 1..(Len(b) + 1) :
                    /\ i <= Len(b) => MatchResult(tsMain, m, b[i]) # "too_old"
                    /\ \A j \in 1..(i - 1) : MatchResult(tsMain, m, b[j]) = "too_old"
    IN  SubSeq(b, first, Len(b))

\* Mutant: an event is yielded though data of a module may still arrive.
MutYields(parts, rest) == TRUE

\* A module whose data is used up may still deliver the match.
Yields(parts, rest) ==
    building = "flush" \/ \A m \in LinearModules : m \in parts \/ rest[m] # <<>>

\* Mutant: data is handed out but not popped.
MutPopParts(parts, rest) == rest

\* After the callback the parts are popped.
PopParts(parts, rest) ==
    [m \in LinearModules |-> IF m \in parts THEN Tail(rest[m]) ELSE rest[m]]

\* One round of the loop: the event of the oldest main module data.
BuildEvent ==
    /\ building # "no" /\ CanBuild
    /\ LET tsMain == moduleEventBuffers[MainIndex][1].ts
           rest   == [m \in LinearModules |-> WithoutTooOld(m, tsMain)]
           parts  == {m \in LinearModules : rest[m] # <<>> /\
                            MatchResult(tsMain, m, rest[m][1]) = "in_window"}
           yields == Yields(parts, rest)
           after  == IF yields THEN PopParts(parts, rest) ELSE rest
       IN  /\ moduleEventBuffers' = after
           /\ moduleMemCounters' = [m \in LinearModules |-> moduleMemCounters[m]
                    - (Words(moduleEventBuffers[m]) - Words(after[m]))]
           /\ moduleDiscardedEvents' = [m \in LinearModules |-> moduleDiscardedEvents[m]
                    + (Len(moduleEventBuffers[m]) - Len(rest[m]))]
           /\ building' = IF yields THEN building ELSE "no"
           /\ IF yields
              THEN /\ assembled' = Append(assembled, [kind |-> building,
                                parts |-> [m \in parts |-> rest[m][1]]])
                   /\ moduleOutputHits' = [m \in LinearModules |-> moduleOutputHits[m]
                                + (IF m \in parts THEN 1 ELSE 0)]
              ELSE UNCHANGED <<assembled, moduleOutputHits>>
    /\ UNCHANGED <<moduleEmptyEvents, moduleInputHits, systemEvents,
                   passThroughEvents, taken>>

\* The end of the loop.  A flush drops what is left.
BuildDone ==
    /\ building # "no" /\ ~CanBuild
    /\ building' = "no"
    /\ IF building = "flush"
       THEN /\ moduleEventBuffers' = [m \in LinearModules |-> <<>>]
            /\ moduleMemCounters' = Zero
       ELSE UNCHANGED <<moduleEventBuffers, moduleMemCounters>>
    /\ UNCHANGED <<moduleDiscardedEvents, moduleEmptyEvents, moduleInputHits,
                   moduleOutputHits, systemEvents, passThroughEvents, taken, assembled>>

\* discardAllEventData(), called by the user.
DiscardAll ==
    /\ building = "no" /\ getMemoryUsage > 0
    /\ moduleEventBuffers' = discardAllEventData.buffers
    /\ moduleMemCounters' = discardAllEventData.mem
    /\ moduleDiscardedEvents' = discardAllEventData.discarded
    /\ UNCHANGED <<moduleEmptyEvents, moduleInputHits, moduleOutputHits,
                   systemEvents, passThroughEvents, building, taken, assembled>>

\* reset(): the data, then the counters.
reset ==
    /\ building = "no" /\ \E m \in LinearModules : moduleInputHits[m] > 0
    /\ moduleEventBuffers' = discardAllEventData.buffers
    /\ moduleMemCounters' = Zero /\ moduleDiscardedEvents' = Zero
    /\ moduleEmptyEvents' = Zero /\ moduleInputHits' = Zero /\ moduleOutputHits' = Zero
    /\ UNCHANGED <<systemEvents, passThroughEvents, building, taken, assembled>>

Next ==
    \/ \E c \in Crates : recordEventData(c)
    \/ recordPassThrough \/ recordSystemEvent \/ buildEvents \/ BuildEvent \/ BuildDone \/ DiscardAll \/ reset

Spec == Init /\ [][Next]_ebVars

-----------------------------------------------------------------------------
(* Properties.                                                             *)

\* Data of a module is put out in the order it was recorded and never twice:
\* buildEvents() hands out pointers into the queues and pops afterwards.
AssembledOnce ==
    \A m \in LinearModules :
        LET shown == SelectSeq(assembled, LAMBDA a : m \in DOMAIN a.parts)
            line  == [i \in DOMAIN shown |-> shown[i].parts[m].n]
                        \o [i \in DOMAIN moduleEventBuffers[m] |->
                                moduleEventBuffers[m][i].n]
        IN  \A i \in 2..Len(line) : line[i - 1] < line[i]

\* The memory counters that guard the limit are exact through recording,
\* discarding, assembling, flushing and reset(), and the limit is exceeded
\* by less than the last event recorded.
MemoryAccounted ==
    /\ \A m \in LinearModules : moduleMemCounters[m] = Words(moduleEventBuffers[m])
    /\ getMemoryUsage < MemoryLimit +
            Max({FoldLeft(LAMBDA sum, d : sum + d.size, 0, data) :
                    data \in UNION {CrateInputs(c, 1) : c \in Crates}})

\* An event lacks a module only when that module has nothing that belongs to
\* it: data still buffered never lies in the window of an assembled event
\* without that module (a flush excepted).
NoMissedMatch ==
    \A i \in DOMAIN assembled : assembled[i].kind = "build" =>
        \A m \in LinearModules \ DOMAIN assembled[i].parts :
            \A j \in DOMAIN moduleEventBuffers[m] :
                LET event == moduleEventBuffers[m][j]
                IN  \/ event.ts = TimestampExtractionFailed
                    \/ MatchResult(assembled[i].parts[MainIndex].ts, m, event) # "in_window"

\* Stamped data assembled with a stamped main module lies in its window, seen
\* from the main stamp; the overflow correction lets one more in across the
\* wrap of the stamps.
InMatchWindow ==
    \A i \in DOMAIN assembled : \A m \in DOMAIN assembled[i].parts :
        LET main == assembled[i].parts[MainIndex].ts
            ts   == assembled[i].parts[m].ts
            p    == TimestampMax + 1
            ahead == (ts - main) % p
            slack == IF ts - main \in -TimestampHalf..TimestampHalf THEN 0 ELSE 1
        IN  TimestampExtractionFailed \notin {main, ts} =>
                \/ ahead - slack <= MatchWindows[m][2]
                \/ p - ahead - slack <= -MatchWindows[m][1]
=============================================================================
