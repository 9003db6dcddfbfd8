----------------------------- MODULE TclDrivers -----------------------------
(***************************************************************************)
(* Slow controls modules of type "tcl" (SlowControlsTclDriver): the driver *)
(* is a script, named by the option -ensemble, that reaches the VME bus    *)
(* through the commands vmusb (TclVmeWrapper) and vmusbreadoutlist         *)
(* (TCLVmeListWrapper).  There is one list for all scripts and clients: a  *)
(* monitoring adds a script's reads to it, executes it, splits the data    *)
(* into bytes, clears the list and hands the bytes to the script.          *)
(* Every command runs to its end in the Tcl thread.  The scripts are not   *)
(* part of the repository: what they read is a constant, and they may fail *)
(* at any point, as the bus may.                                           *)
(***************************************************************************)
EXTENDS Integers, Sequences, SequencesExt

CONSTANTS
    ModuleNames, Ensembles,
    ScriptOps,          \* what the addMonitorList of a script adds
    ClientOps,          \* what clients add to the list
    UseGivenName,       \* the scripts that use the list name they are given
    HalfMod,            \* 2^16, scaled down
    WriteValues,        \* what clients write, as Tcl integers
    MaxListLen, MaxTclFaults

VARIABLES
    tclIndex,           \* SlowControlsModuleIndex::m_modules
    m_list,             \* TCLVmeListWrapper::m_list
    vmeReg,             \* the register all scripts drive
    tclReply,           \* what the last command answered
    tclFaults,          \* faults of the bus and of scripts so far
    leftover,           \* history: what failed monitorings and clients have put into
                        \*   the list since it was last cleared
    monitored,          \* history: what processMonitorList was last given
    possibleReg,        \* history: what a register may hold after what was answered
    initialized,        \* history: the script whose Initialize ran last
    acknowledged        \* history: the last config of a module was answered with OK

tclVars == <<tclIndex, m_list, vmeReg, tclReply, tclFaults, leftover, monitored,
             possibleReg, initialized, acknowledged>>
listHistory == <<leftover, monitored>>
configHistory == <<initialized, acknowledged>>

NoEnsemble == "none"
WordMod == HalfMod * HalfMod
Reply(ok) == [ok |-> ok, value |-> {}]           \* value: what a Get read
Created == DOMAIN tclIndex

\* The conversions between a 32 bit word and a Tcl integer
intToResult(data) == IF 2 * data >= WordMod THEN data - WordMod ELSE data
AsWord(n) == n % WordMod

TclInit ==
    /\ tclIndex = <<>> /\ m_list = <<>>
    /\ vmeReg = WordMod - 1
    /\ tclReply = Reply(TRUE) /\ tclFaults = 0
    /\ leftover = <<>>
    /\ monitored = [bytes |-> <<>>, due |-> <<>>]
    /\ possibleReg = {WordMod - 1}
    /\ initialized = [n \in ModuleNames |-> NoEnsemble]
    /\ acknowledged = [n \in ModuleNames |-> FALSE]

Fault(happens) ==
    /\ happens => tclFaults < MaxTclFaults
    /\ tclFaults' = IF happens THEN tclFaults + 1 ELSE tclFaults

-----------------------------------------------------------------------------
(* Module                                                                  *)

\* A name that is taken is an error.
create(n) ==
    /\ tclReply' = Reply(n \notin Created)
    /\ tclIndex' = IF n \in Created THEN tclIndex
                   ELSE [m \in Created \cup {n} |-> IF m = n THEN NoEnsemble ELSE tclIndex[m]]
    /\ UNCHANGED <<m_list, vmeReg, tclFaults, listHistory, possibleReg, configHistory>>

\* The options up to the first that the module does not have are set.
Accepted(options) ==
    LET bad == SelectInSeq(options, LAMBDA o : o \notin Ensembles)
    IN  IF bad = 0 THEN options ELSE SubSeq(options, 1, bad - 1)
Configured(n, options) ==
    IF Accepted(options) = <<>> THEN tclIndex[n] ELSE Last(Accepted(options))
AllKnown(options) == \A i \in DOMAIN options : options[i] \in Ensembles

\* Mutant: the driver is told before its options are set.
MutInitialize(n, options) ==
    initialized' = IF AllKnown(options) THEN [initialized EXCEPT ![n] = tclIndex[n]]
                   ELSE initialized

\* reconfigure(), after all options; what the script says is not looked at.
Initialize(n, options) ==
    initialized' = IF AllKnown(options) THEN [initialized EXCEPT ![n] = Configured(n, options)]
                   ELSE initialized

configure(n, options) ==
    IF n \notin Created
    THEN tclReply' = Reply(FALSE)
         /\ UNCHANGED <<tclIndex, m_list, vmeReg, tclFaults, listHistory, possibleReg,
                        configHistory>>
    ELSE /\ tclIndex' = [tclIndex EXCEPT ![n] = Configured(n, options)]
         /\ Initialize(n, options)
         /\ tclReply' = Reply(AllKnown(options))
         /\ acknowledged' = [acknowledged EXCEPT ![n] = AllKnown(options)]
         /\ UNCHANGED <<m_list, vmeReg, tclFaults, listHistory, possibleReg>>

Options == {<<e>> : e \in Ensembles} \cup {<<e, "-bad">> : e \in Ensembles}
           \cup {<<"-bad", e>> : e \in Ensembles}

\* cget and list show the index.  (What they show is left out.)
cget(n) ==
    /\ tclReply' = Reply(n \in Created)
    /\ UNCHANGED <<tclIndex, m_list, vmeReg, tclFaults, listHistory, possibleReg, configHistory>>

list ==
    /\ tclReply' = Reply(TRUE)
    /\ UNCHANGED <<tclIndex, m_list, vmeReg, tclFaults, listHistory, possibleReg, configHistory>>

-----------------------------------------------------------------------------
(* Set, Get and Update, through vmusb                                      *)

Usable(n) == IF n \in Created THEN tclIndex[n] # NoEnsemble ELSE FALSE

\* A module that has no script answers a text that is no error.
Unusable(n) ==
    /\ ~Usable(n)
    /\ tclReply' = Reply(n \in Created)
    /\ UNCHANGED <<tclIndex, m_list, vmeReg, tclFaults, listHistory, possibleReg, configHistory>>

\* Mutant: a script error is not passed on.
MutexecuteCommand(outcome) == Reply(TRUE)

\* The result of the script, or an error if it raises one
executeCommand(outcome) == Reply(outcome = "ok")

Outcomes == {"ok", "refused", "unanswered"}
vmeWrite(word, outcome) ==
    /\ Fault(outcome # "ok")
    /\ vmeReg' = IF outcome = "refused" THEN vmeReg ELSE word

Set(n, value, outcome) ==
    /\ Usable(n)
    /\ LET word == AsWord(value)
       IN  /\ vmeWrite(word, outcome)
           /\ tclReply' = executeCommand(outcome)
           /\ possibleReg' = IF tclReply'.ok THEN {word} ELSE possibleReg \cup {word}
    /\ UNCHANGED <<tclIndex, m_list, listHistory, configHistory>>

\* The scripts rewrite the default 0; the answer is OK whatever happens.
Update(n, outcome) ==
    /\ Usable(n)
    /\ vmeWrite(0, outcome)
    /\ possibleReg' = possibleReg \cup {0}
    /\ tclReply' = Reply(TRUE)
    /\ UNCHANGED <<tclIndex, m_list, listHistory, configHistory>>

Get(n, fails) ==
    /\ Usable(n) /\ Fault(fails)
    /\ tclReply' = [ok |-> ~fails, value |-> IF fails THEN {} ELSE {intToResult(vmeReg)}]
    /\ UNCHANGED <<tclIndex, m_list, vmeReg, listHistory, possibleReg, configHistory>>

-----------------------------------------------------------------------------
(* vmusbreadoutlist                                                        *)

\* A client adds a read or a write itself.
addOp(op) ==
    /\ Len(m_list) < MaxListLen
    /\ m_list' = Append(m_list, op) /\ leftover' = Append(leftover, op)
    /\ tclReply' = Reply(TRUE)
    /\ UNCHANGED <<tclIndex, vmeReg, tclFaults, monitored, possibleReg, configHistory>>

clear ==
    /\ m_list' = <<>> /\ leftover' = <<>>
    /\ tclReply' = Reply(TRUE)
    /\ UNCHANGED <<tclIndex, vmeReg, tclFaults, monitored, possibleReg, configHistory>>

\* addWrite() writes the width in hex, which decodeWidth() refuses.
Compiles(ops) == \A i \in DOMAIN ops : ops[i].op = "r"

\* A 16 bit read gives the lower half of the register.
ReadValue(op) == IF op.width = 32 THEN vmeReg ELSE vmeReg % HalfMod

\* The last three characters of the operation are compared with "32".
isLong(op) == FALSE

\* The data of the reads in ops as (two byte) halves
toBytes(ops) ==
    FlattenSeq([i \in DOMAIN ops |->
        LET v == ReadValue(ops[i])
        IN  IF isLong(ops[i]) THEN <<v % HalfMod, v \div HalfMod>> ELSE <<v % HalfMod>>])

-----------------------------------------------------------------------------
(* mon                                                                     *)

\* The monitoring fails and leaves what the script has added in the list.
MonitorFails(added) ==
    /\ m_list' = m_list \o added /\ leftover' = leftover \o added
    /\ tclReply' = Reply(FALSE)
    /\ UNCHANGED monitored

\* requestMonitorList(): the script fails after it has added the first k reads.
\* The list is called vmusbreadoutlist, the name given is vmusbReadoutList.
requestMonitorListFails(e, k) ==
    /\ k < Len(ScriptOps[e]) /\ (e \in UseGivenName => k = 0)
    /\ Fault(e \notin UseGivenName)
    /\ MonitorFails(SubSeq(ScriptOps[e], 1, k))

Adds(e) == e \in UseGivenName => ScriptOps[e] = <<>>

\* execute() fails, on the bus or because the list does not compile.
ExecuteFails(e) ==
    LET ops == m_list \o ScriptOps[e]
    IN  /\ Adds(e) /\ ops # <<>>
        /\ Fault(Compiles(ops))
        /\ MonitorFails(ScriptOps[e])

\* Mutant: the list is not cleared.
MutmonitorListAfter(ops) == ops

\* The list is cleared before the script gets the data.
monitorListAfter(ops) == <<>>

\* requestProcessMonitorList() and requestGetMonitorData(); the script may fail.
ProcessMonitorList(e, fails) ==
    LET ops == m_list \o ScriptOps[e]
    IN  /\ Adds(e) /\ ops # <<>> /\ Compiles(ops)
        /\ Fault(fails)
        /\ m_list' = monitorListAfter(ops) /\ leftover' = <<>>
        /\ monitored' = [bytes |-> toBytes(ops), due |-> toBytes(leftover \o ScriptOps[e])]
        /\ tclReply' = Reply(~fails)

\* Nothing to monitor
EmptyMonitorList(e) ==
    /\ m_list = <<>> /\ ScriptOps[e] = <<>>
    /\ tclReply' = Reply(TRUE) /\ UNCHANGED <<m_list, leftover, monitored, tclFaults>>

getMonitor(n) ==
    /\ Usable(n)
    /\ LET e == tclIndex[n]
       IN  \/ \E k \in 0 .. Len(ScriptOps[e]) : requestMonitorListFails(e, k)
           \/ ExecuteFails(e)
           \/ \E fails \in BOOLEAN : ProcessMonitorList(e, fails)
           \/ EmptyMonitorList(e)
    /\ Len(m_list') <= MaxListLen
    /\ UNCHANGED <<tclIndex, vmeReg, possibleReg, configHistory>>

TclNext ==
    \/ \E n \in ModuleNames :
        \/ create(n) \/ cget(n) \/ Unusable(n) \/ getMonitor(n)
        \/ \E options \in Options : configure(n, options)
        \/ \E outcome \in Outcomes : Update(n, outcome)
        \/ \E value \in WriteValues, outcome \in Outcomes : Set(n, value, outcome)
        \/ \E fails \in BOOLEAN : Get(n, fails)
    \/ list \/ clear
    \/ \E op \in ClientOps : addOp(op)

-----------------------------------------------------------------------------
(* Properties                                                              *)

\* A script is handed the data of its own reads, behind that of what failed
\* monitorings and clients have put into the shared list since it was last
\* cleared, and nothing of a monitoring that went well.  So it gets its own
\* data only if nothing was left.  (SlowControlsTclDriver.cc:190 says that a
\* failed requestMonitorList() resets the list; it does not.)
MonitorDataOwn == monitored.bytes = monitored.due

\* After a Set that was not answered with an error the register holds the value,
\* with the bits of the Tcl integer, until somebody writes it again, and a Get shows
\* a value with those bits.
TclSetStands ==
    /\ vmeReg \in possibleReg
    /\ \A v \in tclReply.value : AsWord(v) \in possibleReg

\* A config that was answered with OK has initialized the script the module
\* shows; a config that failed part way leaves a script that was not.
ConfigInitialized ==
    \A n \in Created : acknowledged[n] => initialized[n] = tclIndex[n]
=============================================================================
