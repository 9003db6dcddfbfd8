---------------------------- MODULE StackErrors ----------------------------
(***************************************************************************)
(* Stack error notifications: the command pipe reader counts them          *)
(* (update_stack_error_counters), the readout worker records changed       *)
(* counters in the listfile (StackErrorsPlugin), and readers of the        *)
(* listfile decode them (mvlc_stack_errors.h).                             *)
(*                                                                         *)
(* A word of the listfile section holds a stack, flags, LineMod line       *)
(* numbers and a count that stops at CountMax.                             *)
(***************************************************************************)
EXTENDS Naturals, Sequences, Functions, FiniteSets

CONSTANTS StackIds, LineNumbers, Flags,   \* what notifications hold
          StackCount,           \* stacks the counters have room for
          LineMod, CountMax,    \* 256 and 0xffff in the code
          MaxNotified, MaxErrorRuns

ASSUME ErrorAssumption ==
    /\ LineNumbers \subseteq Nat /\ LineMod \in Nat \ {0} /\ CountMax \in Nat

VARIABLES
    counters,           \* StackErrorCounters::stackErrors: count per error
    nonErrorFrames,
    prevCounters,       \* of the plugin
    initialCounters,    \* history: prevCounters when the plugin recorded them
    daqRuns,
    run,                \* of the worker: "idle", "reset" (its loop has reset the
                        \* counters, the plugins have not started) or "running"
    section,            \* last StackErrors section of the run; <<>>: none
    checked,            \* no notification since the plugin compared the counters
    notified            \* number of notifications

errorVars == <<counters, nonErrorFrames, prevCounters, initialCounters, daqRuns, run,
               section, checked, notified>>

Errors == [stack : {s \in StackIds : s < StackCount}, line : LineNumbers, flags : Flags]
NoErrors == [e \in Errors |-> 0]

ErrorsInit ==
    /\ counters = NoErrors /\ nonErrorFrames = 0 /\ prevCounters = NoErrors
    /\ initialCounters = NoErrors /\ daqRuns = 0 /\ run = "idle" /\ section = <<>>
    /\ checked = FALSE /\ notified = 0

\* A frame of two words and a known stack is an error, others are only counted.
update_stack_error_counters(words, stack, line, flags) ==
    IF words = 2 /\ stack < StackCount
    THEN /\ counters' = [counters EXCEPT ![[stack |-> stack, line |-> line,
                                            flags |-> flags]] = @ + 1]
         /\ UNCHANGED nonErrorFrames
    ELSE /\ nonErrorFrames' = nonErrorFrames + 1
         /\ UNCHANGED counters

Notification ==
    /\ notified < MaxNotified /\ notified' = notified + 1
    /\ \E words \in {1, 2}, s \in StackIds, l \in LineNumbers, f \in Flags :
         update_stack_error_counters(words, s, l, f)
    /\ checked' = FALSE
    /\ UNCHANGED <<prevCounters, initialCounters, daqRuns, run, section>>

\* stack_error_info_to_sysevent_data(), for one entry
stack_error_info_to_sysevent_data(e, n) ==
    [stack |-> e.stack, flags |-> e.flags, line |-> e.line % LineMod,
     count |-> IF n > CountMax THEN CountMax ELSE n]

\* The errors that were counted, in the order the hash map lists them: any order
Listings ==
    LET seen == {e \in Errors : counters[e] # 0} IN Bijection(1 .. Cardinality(seen), seen)

\* stack_errors_to_sysevent_data()
stack_errors_to_sysevent_data(listing) ==
    [i \in DOMAIN listing |->
        stack_error_info_to_sysevent_data(listing[i], counters[listing[i]])]

\* decode_stack_errors_sysevent_data(): a later word overwrites an earlier one.
decode_stack_errors_sysevent_data(data) ==
    [e \in Errors |->
        LET hits == {i \in DOMAIN data : /\ data[i].stack = e.stack
                                         /\ data[i].flags = e.flags
                                         /\ data[i].line = e.line}
        IN  IF hits = {} THEN 0 ELSE data[CHOOSE i \in hits : \A j \in hits : j <= i].count]

\* ReadoutWorker::Private::loop(): the counters are reset when the worker starts,
\* which the command pipe reader does not wait for.
resetStackErrorCounters ==
    /\ run = "idle" /\ daqRuns < MaxErrorRuns
    /\ daqRuns' = daqRuns + 1 /\ run' = "reset"
    /\ counters' = NoErrors /\ nonErrorFrames' = 0 /\ section' = <<>> /\ checked' = FALSE
    /\ UNCHANGED <<prevCounters, initialCounters, notified>>

\* Mutant: the plugin goes on with the counters of the run before.
MutreadoutStart ==
    /\ run = "reset" /\ run' = "running"
    /\ initialCounters' = counters
    /\ UNCHANGED <<counters, nonErrorFrames, prevCounters, daqRuns, section, checked,
                   notified>>

\* StackErrorsPlugin::readoutStart() records the initial state of the counters,
\* errors counted since the reset included.
readoutStart ==
    /\ run = "reset" /\ run' = "running"
    /\ prevCounters' = counters /\ initialCounters' = counters
    /\ UNCHANGED <<counters, nonErrorFrames, daqRuns, section, checked, notified>>

\* StackErrorsPlugin::operator(), once MinRecordingInterval has passed
Check ==
    /\ run = "running"
    /\ IF counters # prevCounters
       THEN /\ \E listing \in Listings : section' = stack_errors_to_sysevent_data(listing)
            /\ prevCounters' = counters
       ELSE UNCHANGED <<section, prevCounters>>
    /\ checked' = TRUE
    /\ UNCHANGED <<counters, nonErrorFrames, initialCounters, daqRuns, run, notified>>

\* The plugin has nothing to do at the end of a run.
readoutStop ==
    /\ run = "running" /\ run' = "idle"
    /\ UNCHANGED <<counters, nonErrorFrames, prevCounters, initialCounters, daqRuns,
                   section, checked, notified>>

ErrorsNext == Notification \/ resetStackErrorCounters \/ readoutStart \/ Check \/ readoutStop

Saturated(n) == IF n > CountMax THEN CountMax ELSE n
Distinguishable(e) ==
    \A d \in Errors : d # e /\ d.stack = e.stack /\ d.flags = e.flags
                        => d.line % LineMod # e.line % LineMod

\* After the plugin has compared the counters, decoding the last section of the
\* run gives every counter, up to the largest count a word holds, for lines
\* that differ in the bits a word has room for, also in a second run. There is
\* no section as long as the counters are those the plugin found when it
\* started: errors counted between the reset in loop() and readoutStart() reach
\* the listfile with the next error of the run, and not at all if none follows.
ErrorsRecorded ==
    run = "running" /\ checked =>
        \/ counters = initialCounters /\ section = <<>>
        \/ \A e \in Errors : Distinguishable(e) /\ e.line < LineMod =>
             decode_stack_errors_sysevent_data(section)[e] = Saturated(counters[e])
=============================================================================
