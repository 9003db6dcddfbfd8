------------------------------- MODULE VmeList -------------------------------
(***************************************************************************)
(* VME access from other programs through the slow controls server of the  *)
(* FRIB DAQ readout: clients build a list of reads and writes (CVMEClient) *)
(* and send it as the request "Set name list {...}"; the server (TclServer)*)
(* collects what arrives until it is a complete Tcl command and hands the  *)
(* list to the driver (CVMEModule).  TCP may deliver a request in pieces.  *)
(*                                                                         *)
(* The server runs in the Tcl thread: a request is evaluated in one step.  *)
(***************************************************************************)
EXTENDS Integers, Sequences, SequencesExt, FiniteSets

CONSTANTS VmeClients, MaxOps, MaxVmeFaults, MaxExecutes

VARIABLES
    m_operations, m_readIndices, m_nextReadIndex,       \* CVMEClient
    cpc,                \* per client: "build", "wait" (for the reply line)
    request,            \* per client: what the server has not yet got
    m_command,          \* per client: InputClientData::m_command
    replies,            \* per client: reply lines not yet read
    answer,             \* per client: what execute() gave, <<>> before
    mem,                \* the VME memory
    done,               \* history, per client: the operations of its request
                        \*   that were executed, each with the value read
    busFaults, executes \* bounds

vmeVars == <<m_operations, m_readIndices, m_nextReadIndex, cpc, request, m_command,
             replies, answer, mem, done, busFaults, executes>>
listVars == <<m_operations, m_readIndices, m_nextReadIndex>>
Addresses == {0}

\* A read, a write, or an operation CompileItem() refuses
Op(op, a, v) == [op |-> op, addr |-> a, value |-> v]
Ops == {Op("r", 0, 0), Op("w", 0, 7), Op("bad", 0, 0)}

Init ==
    /\ m_operations = [c \in VmeClients |-> <<>>]
    /\ m_readIndices = [c \in VmeClients |-> <<>>]
    /\ m_nextReadIndex = [c \in VmeClients |-> 0]
    /\ cpc = [c \in VmeClients |-> "build"]
    /\ request = [c \in VmeClients |-> <<>>] /\ m_command = [c \in VmeClients |-> <<>>]
    /\ replies = [c \in VmeClients |-> <<>>] /\ answer = [c \in VmeClients |-> <<>>]
    /\ mem = [a \in Addresses |-> a + 1]
    /\ done = [c \in VmeClients |-> <<>>]
    /\ busFaults = 0 /\ executes = 0

-----------------------------------------------------------------------------
(* The client                                                              *)

\* Mutant: a write takes a read index, too.
Mutadd(c, o) ==
    /\ m_operations' = [m_operations EXCEPT ![c] = Append(@, o)]
    /\ m_readIndices' = [m_readIndices EXCEPT ![c] = Append(@, m_nextReadIndex[c])]
    /\ m_nextReadIndex' = [m_nextReadIndex EXCEPT ![c] = @ + 1]

\* addRead() and addWrite(): what is not a read has no read index.
add(c, o) ==
    /\ m_operations' = [m_operations EXCEPT ![c] = Append(@, o)]
    /\ m_readIndices' = [m_readIndices EXCEPT ![c] =
                           Append(@, IF o.op = "r" THEN m_nextReadIndex[c] ELSE -1)]
    /\ m_nextReadIndex' = [m_nextReadIndex EXCEPT ![c] = IF o.op = "r" THEN @ + 1 ELSE @]

\* An operation changes the list, which then no longer is the one answered.
Build(c, o) ==
    /\ cpc[c] = "build" /\ Len(m_operations[c]) < MaxOps
    /\ add(c, o)
    /\ answer' = [answer EXCEPT ![c] = <<>>] /\ done' = [done EXCEPT ![c] = <<>>]
    /\ UNCHANGED <<cpc, request, m_command, replies, mem, busFaults, executes>>

reset(c) ==
    /\ cpc[c] = "build" /\ m_operations[c] # <<>>
    /\ m_operations' = [m_operations EXCEPT ![c] = <<>>]
    /\ m_readIndices' = [m_readIndices EXCEPT ![c] = <<>>]
    /\ m_nextReadIndex' = [m_nextReadIndex EXCEPT ![c] = 0]
    /\ answer' = [answer EXCEPT ![c] = <<>>] /\ done' = [done EXCEPT ![c] = <<>>]
    /\ UNCHANGED <<cpc, request, m_command, replies, mem, busFaults, executes>>

\* buildRequest(), as the pieces in which it may arrive
Piece(text, ops) == [text |-> text, ops |-> ops]
buildRequest(c) == <<Piece("Set name", <<>>), Piece("list {", m_operations[c]), Piece("}", <<>>)>>

\* execute() up to the request, over a connection of its own
execute(c) ==
    /\ cpc[c] = "build" /\ request[c] = <<>> /\ executes < MaxExecutes
    /\ executes' = executes + 1
    /\ request' = [request EXCEPT ![c] = buildRequest(c)]
    /\ m_command' = [m_command EXCEPT ![c] = <<>>]
    /\ replies' = [replies EXCEPT ![c] = <<>>]
    /\ done' = [done EXCEPT ![c] = <<>>]
    /\ answer' = [answer EXCEPT ![c] = <<>>]
    /\ cpc' = [cpc EXCEPT ![c] = "wait"]
    /\ UNCHANGED <<listVars, mem, busFaults>>

\* transact() has a line of reply and closes; distributeData()
Reply(c) ==
    /\ cpc[c] = "wait" /\ replies[c] # <<>>
    /\ answer' = [answer EXCEPT ![c] = <<Head(replies[c])>>]
    /\ replies' = [replies EXCEPT ![c] = Tail(@)]
    /\ cpc' = [cpc EXCEPT ![c] = "build"]
    /\ UNCHANGED <<listVars, request, m_command, mem, done, busFaults, executes>>

readIndex(c, i) == m_readIndices[c][i]

-----------------------------------------------------------------------------
(* The server and the driver                                               *)

\* What operation o gives in memory m
Effect(o, m) == IF o.op = "w" THEN [m EXCEPT ![o.addr] = o.value] ELSE m

\* The memory before operation i of ops
Before(ops, m, i) == FoldLeft(LAMBDA acc, o : Effect(o, acc), m, SubSeq(ops, 1, i - 1))

\* How many of the operations before operation i are reads
ReadsBefore(ops, i) == Cardinality({j \in 1 .. i - 1 : ops[j].op = "r"})

\* CVMEModule::Set() of ops, of which the one after the first n fails if n is
\* less than their number: the answer with the data in the order of the reads,
\* what was done and the memory after it.
Run(ops, n) ==
    LET trace == [i \in 1 .. n |-> [op |-> ops[i],
                                    value |-> Before(ops, mem, i)[ops[i].addr]]]
        Reads == {i \in 1 .. n : ops[i].op = "r"}
        Read(k) == CHOOSE i \in Reads : ReadsBefore(ops, i) = k - 1
    IN  [reply |-> [ok |-> n = Len(ops),
                    data |-> [k \in 1 .. ReadsBefore(ops, n + 1) |-> trace[Read(k)].value]],
         trace |-> trace,
         mem |-> Before(ops, mem, n + 1)]

CompileList(ops) == \A i \in DOMAIN ops : ops[i].op \in {"r", "w"}

\* Mutant: operations are executed as they are compiled.
MutSet(c, ops) ==
    \E n \in 0 .. Len(ops) :
        LET run == Run(ops, n)
            fault == n < Len(ops) /\ ops[n + 1].op # "bad"
        IN  /\ \A i \in 1 .. n : ops[i].op # "bad"
            /\ busFaults' = IF fault THEN busFaults + 1 ELSE busFaults
            /\ busFaults' <= MaxVmeFaults
            /\ replies' = [replies EXCEPT ![c] = Append(@, run.reply)]
            /\ done' = [done EXCEPT ![c] = run.trace]
            /\ mem' = run.mem

Refused == [ok |-> FALSE, data |-> <<>>]

\* CVMEModule::Set(): the list is compiled before any of it is executed; the
\* first bus error ends it (whether the access that failed had an effect is not
\* counted).
Set(c, ops) ==
    IF ~CompileList(ops)
    THEN /\ replies' = [replies EXCEPT ![c] = Append(@, Refused)]
         /\ UNCHANGED <<done, mem, busFaults>>
    ELSE \E n \in 0 .. Len(ops) :
        /\ n = Len(ops) \/ busFaults < MaxVmeFaults
        /\ busFaults' = IF n = Len(ops) THEN busFaults ELSE busFaults + 1
        /\ LET run == Run(ops, n)
           IN  /\ replies' = [replies EXCEPT ![c] = Append(@, run.reply)]
               /\ done' = [done EXCEPT ![c] = run.trace]
               /\ mem' = run.mem

\* Tcl_CommandComplete(): all braces are closed.
Has(pieces, text) == \E i \in DOMAIN pieces : pieces[i].text = text
CommandComplete(pieces) == Has(pieces, "list {") => Has(pieces, "}")

\* processClientRequest(): anything that is not the whole request is an error
\* for the interpreter ("list {...}" alone is a command that returns its
\* argument).
processClientRequest(c, pieces) ==
    IF Len(pieces) = 3 THEN Set(c, pieces[2].ops)
    ELSE /\ replies' = [replies EXCEPT ![c] =
                Append(@, [ok |-> Has(pieces, "list {"), data |-> <<>>])]
         /\ UNCHANGED <<done, mem, busFaults>>

\* OnInput(): n pieces arrive.
OnInput(c, n) ==
    /\ n <= Len(request[c])
    /\ LET pieces == m_command[c] \o SubSeq(request[c], 1, n)
       IN  IF CommandComplete(pieces)
           THEN /\ processClientRequest(c, pieces)
                /\ m_command' = [m_command EXCEPT ![c] = <<>>]
           ELSE /\ m_command' = [m_command EXCEPT ![c] = pieces]
                /\ UNCHANGED <<replies, done, mem, busFaults>>
    /\ request' = [request EXCEPT ![c] = SubSeq(@, n + 1, Len(@))]
    /\ UNCHANGED <<listVars, cpc, answer, executes>>

Next ==
    \E c \in VmeClients :
        \/ \E o \in Ops : Build(c, o)
        \/ reset(c) \/ execute(c) \/ Reply(c)
        \/ \E n \in 1 .. 3 : OnInput(c, n)

-----------------------------------------------------------------------------
(* Properties                                                              *)

\* What execute() answers is what was done, whatever other clients do and in
\* whatever pieces the request arrived: after OK every operation was executed
\* in order and readIndex() leads to the value each read saw; after an error
\* only a part of them was, from the first on.
ExecuteAnswersTruth ==
    \A c \in VmeClients : answer[c] # <<>> =>
        LET ops == m_operations[c]
        IN  /\ \A i \in DOMAIN done[c] : done[c][i].op = ops[i]
            /\ answer[c][1].ok =>
                 /\ Len(done[c]) = Len(ops)
                 /\ \A i \in DOMAIN ops : ops[i].op = "r" =>
                      /\ readIndex(c, i) < Len(answer[c][1].data)
                      /\ answer[c][1].data[readIndex(c, i) + 1] = done[c][i].value

\* A list with an operation that does not compile touches nothing, not even with
\* the good operations before it.
NothingHalfCompiled ==
    \A c \in VmeClients :
        cpc[c] = "wait" /\ (\E i \in DOMAIN m_operations[c] : m_operations[c][i].op = "bad")
            => done[c] = <<>>
=============================================================================
