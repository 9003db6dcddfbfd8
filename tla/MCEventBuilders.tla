-------------------------- MODULE MCEventBuilders --------------------------
(***************************************************************************)
(* Small instances of the two event builders and of the extractors they    *)
(* get their stamps from: a behaviour is one of EventBuilder2, one of      *)
(* EventBuilder or one of Timestamps.                                      *)
(***************************************************************************)
EXTENDS EventBuilder2

CONSTANTS CrateSetups, MainModule, MatchWindows, MemoryLimit, MaxEvents, MaxDirect,
          CrateInputs(_, _),
          WordBits, Patterns, StampWords, StampIndexes

VARIABLES
    builder,            \* which of them this behaviour is about
    moduleEventBuffers, moduleMemCounters, moduleDiscardedEvents,
    moduleEmptyEvents, moduleInputHits, moduleOutputHits,
    systemEvents, passThroughEvents, building, taken, assembled,
    stampFilter, stampMarker, stampIndex, stampData, stamp, stamp2

EB1 == INSTANCE EventBuilder
TS == INSTANCE Timestamps

(* EventBuilder2. *)
Configs == <<[offset |-> 2, window |-> 2], [offset |-> 0, window |-> 3]>>
At(t) == [ts |-> t % (TimestampMax + 1), empty |-> FALSE]
Corrupt == [ts |-> None, empty |-> FALSE]
Empty == [ts |-> None, empty |-> TRUE]

\* Both modules, the second one with a stamp that is two ahead (as the
\* offset of the first expects), near, far ahead or late; one of them without a
\* stamp; none at all; one module only.
InputsAt(t) == {<<At(t), At(t)>>, <<At(t), At(t + 2)>>, <<At(t), At(t + 5)>>,
                <<At(t), At(t - 8)>>,
                <<Empty, At(t + 2)>>, <<At(t), Corrupt>>, <<Corrupt, Empty>>,
                <<Corrupt>>}

(* EventBuilder: two crates of one module each, the first the main one. *)
Setups == <<1, 1>>
Main == <<1, 1>>
Windows == <<<<-1, 1>>, <<-2, 1>>>>
EventCounts == <<2, 3>>

\* Triggers are four apart.  The second crate is early (in the window) or late;
\* a first or a second event lacks its stamp or is empty.
CrateInputsAt(c, n) ==
    LET t == 56 + 4 * n
        ts(j) == [ts |-> (t + j) % (TimestampMax + 1), size |-> 1]
        bad(k) == [ts |-> EB1!TimestampExtractionFailed, size |-> k]
    IN  {<<ts(j)>> : j \in IF c = 1 THEN {0} ELSE {-2, 2}}
        \cup (IF n = c THEN {<<bad(2)>>} ELSE {})
        \cup (IF n = 2 THEN {<<bad(0)>>} ELSE {})

(* Filters of four bits with matching, ignored and extracted bits in every *)
(* order, two with a second marker and two that are shorter than a word.   *)
Filters == {p \in [1 .. 4 -> {"1", "D", "X"}] : "D" \in ToSet(p)}
           \cup {<<"A", "D", "A", "D">>, <<"0", "A", "1", "D">>, <<"D", "X", "D">>, <<"0", "D">>}
Words == {{0, 1, 2, 3}, {0, 2}, {1, 3}, {}}
Indexes == -3 .. 1

-----------------------------------------------------------------------------
eb1Vars == <<moduleEventBuffers, moduleMemCounters, moduleDiscardedEvents,
             moduleEmptyEvents, moduleInputHits, moduleOutputHits,
             systemEvents, passThroughEvents, building, taken, assembled>>
stampVars == <<stampFilter, stampMarker, stampIndex, stampData, stamp, stamp2>>
AllVars == <<builder, vars, eb1Vars, stampVars>>

PlainStamps == stampFilter = <<"0", "D">> /\ stampIndex = TS!Anywhere

BuildersInit ==
    /\ \/ builder \in {"EventBuilder", "EventBuilder2"} /\ PlainStamps
       \/ builder = "Timestamps"
    /\ Init /\ EB1!Init /\ TS!StampsInit

BuildersNext ==
    /\ \/ builder = "EventBuilder2" /\ Next /\ UNCHANGED <<eb1Vars, stampVars>>
       \/ builder = "EventBuilder" /\ EB1!Next /\ UNCHANGED <<vars, stampVars>>
       \/ builder = "Timestamps" /\ TS!StampsNext /\ UNCHANGED <<vars, eb1Vars>>
    /\ UNCHANGED builder

BuildersSpec ==
    /\ BuildersInit /\ [][BuildersNext]_AllVars
    /\ WF_AllVars(FlushStep /\ UNCHANGED <<builder, eb1Vars, stampVars>>)

\* EventBuilder assembles every piece of data once, with partners inside their match
\* windows and without missing one it has, its memory count is what it holds, and the
\* stamps are the bits that the filter describes (buildEvents, IndexedTimestampExtractor).
EventsMatched ==
    /\ EB1!AssembledOnce /\ EB1!MemoryAccounted
    /\ EB1!NoMissedMatch /\ EB1!InMatchWindow
    /\ TS!StampAsDescribed
=============================================================================
