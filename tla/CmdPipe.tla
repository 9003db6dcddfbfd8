------------------------------ MODULE CmdPipe ------------------------------
(***************************************************************************)
(* The command pipe of class MVLC (mvlc.cc): CmdApi's super and stack      *)
(* transactions with their retries, the cmd_pipe_reader thread that        *)
(* matches incoming frames with the one pending super and the one pending  *)
(* stack response, and connect()/disconnect(), which start and stop it.    *)
(*                                                                         *)
(* Three actors: the API thread (whoever holds the command lock; pc is its *)
(* place in CmdApi, "idle" when the lock is free), the reader thread, and  *)
(* the MVLC (external), which answers requests in order.  Packets may be   *)
(* lost both ways and responses may arrive late.  Every access to a        *)
(* pending response (WaitableProtected) is one step.                       *)
(*                                                                         *)
(* A word is a frame header with its length and Continue flag, a reference *)
(* word, a register value, or other data.  Data words are never mistaken   *)
(* for headers.  Error codes are their ErrorType.  assert() is compiled    *)
(* out; what the asserts claim is stated as properties.                    *)
(***************************************************************************)
EXTENDS Naturals, Sequences

CONSTANTS
    Ops,                     \* the public calls made: [kind, parts, fits]
    TransactionMaxAttempts,  \* 3 in mvlc.cc
    SuperRefMod,             \* 2^16: nextSuperReference is a u16
    MaxOps,                  \* bound: public calls
    MaxFaults,               \* bound: lost packets, failed writes and reads
    MaxRaces,                \* bound: timeouts while an answer is under way
    MaxNoise                 \* bound: unsolicited packets

Kinds == {"register", "stack", "connect", "disconnect"}

ASSUME OpsAssumption ==
    Ops \subseteq [kind : Kinds, parts : Nat \ {0}, fits : BOOLEAN]
ASSUME AttemptsAssumption == TransactionMaxAttempts \in Nat \ {0}
ASSUME RefModAssumption == SuperRefMod \in Nat \ {0}
ASSUME BoundsAssumption == {MaxOps, MaxFaults, MaxRaces, MaxNoise} \subseteq Nat

VARIABLES
    pc, op,                  \* where the API thread is, in which public call
    call,                    \* what the running super transaction is for
    ec,                      \* the error_code being returned
    superAttempt, stackAttempt, part,
    superRef, stackRef, nextSuperReference, nextStackReference,
    superResponse, stackResponse,   \* the destination vectors
    pendingSuper, pendingStack,     \* [pending, reference]
    superFuture, stackFuture,       \* "unset" or the promise's value
    impl, isConnected,       \* impl_->isConnected(), isConnected_
    reader, quit, buffer,    \* the reader thread, its flag and its buffer
    toDevice, toHost,        \* requests and packets under way
    status1,                 \* the MVLC's stack_exec_status1 register
    executions,              \* history: stackRefs the MVLC executed, in order
    ops, faults, races, noise

opVars      == <<op, stackRef, nextStackReference, ops>>
superVars   == <<call, superAttempt, superRef, nextSuperReference>>
pendingVars == <<pendingSuper, pendingStack, superFuture, stackFuture,
                 superResponse, stackResponse>>
connVars    == <<impl, isConnected>>
readerVars  == <<reader, quit, buffer>>
deviceVars  == <<toDevice, toHost, status1, executions>>
budgetVars  == <<faults, races, noise>>
vars == <<pc, opVars, ec, superVars, stackAttempt, part, pendingVars, connVars,
          readerVars, deviceVars, budgetVars>>

NoPending == [pending |-> FALSE, reference |-> 0]
NoOp      == [kind |-> "connect", parts |-> 1, fits |-> TRUE]

Init ==
    /\ pc = "idle" /\ op = NoOp /\ call = "hwid" /\ ec = "ok"
    /\ superAttempt = 0 /\ stackAttempt = 0 /\ part = 0
    /\ superRef = 0 /\ stackRef = 0
    /\ nextSuperReference = 1 /\ nextStackReference = 1
    /\ superResponse = <<>> /\ stackResponse = <<>>
    /\ pendingSuper = NoPending /\ pendingStack = NoPending
    /\ superFuture = "unset" /\ stackFuture = "unset"
    /\ impl = FALSE /\ isConnected = FALSE
    /\ reader = "none" /\ quit = FALSE /\ buffer = <<>>
    /\ toDevice = <<>> /\ toHost = <<>> /\ status1 = 0 /\ executions = <<>>
    /\ ops = 0 /\ faults = 0 /\ races = 0 /\ noise = 0

----------------------------------------------------------------------------
(* Words and frames.                                                       *)

Word(t, n, cont) == [t |-> t, n |-> n, cont |-> cont]
Header(t, len)   == Word(t, len, FALSE)
HeaderCont(t, len) == Word(t, len, TRUE)

SuperFrame(ref, value) ==
    <<Header("super", 2), Word("ref", ref, FALSE), Word("value", value, FALSE)>>

\* The length readRegister() and readStackExecStatusRegisters() expect.
ResponseSize == 3

IsGoodHeader(w) == w.t \in {"super", "superCont", "stack", "stackCont", "error"}

\* contains_complete_frame(): the frame in front and its continuations end with
\* word e.  A header whose Continue flag is set is followed by another header.
FrameEndsAt(buf, e) ==
    \E heads \in SUBSET {i \in DOMAIN buf : IsGoodHeader(buf[i])} :
        /\ 1 \in heads
        /\ \A h \in heads :
             /\ h + buf[h].n <= e
             /\ IF buf[h].cont THEN h + buf[h].n + 1 \in heads
                               ELSE h + buf[h].n = e

CompleteFrame(buf) == \E e \in DOMAIN buf : FrameEndsAt(buf, e)
FrameEnd(buf) == CHOOSE e \in DOMAIN buf : FrameEndsAt(buf, e)

----------------------------------------------------------------------------
(* Pending responses.                                                      *)

\* set_pending_response(): blocks while one is pending.
SetPendingSuper(ref) ==
    /\ ~pendingSuper.pending
    /\ pendingSuper' = [pending |-> TRUE, reference |-> ref]
    /\ superFuture' = "unset"

SetPendingStack(ref) ==
    /\ ~pendingStack.pending
    /\ pendingStack' = [pending |-> TRUE, reference |-> ref]
    /\ stackFuture' = "unset"

\* fullfill_pending_response(): only the first call has an effect.
FullfillSuper(code, contents) ==
    IF pendingSuper.pending
    THEN /\ pendingSuper' = [pendingSuper EXCEPT !.pending = FALSE]
         /\ superResponse' = superResponse \o contents
         /\ superFuture' = code
    ELSE UNCHANGED <<pendingSuper, superResponse, superFuture>>

\* Mutant: data is consumed although nothing is pending.
MutFullfillStack(code, contents) ==
    /\ pendingStack' = [pendingStack EXCEPT !.pending = FALSE]
    /\ stackResponse' = stackResponse \o contents
    /\ stackFuture' = code

FullfillStack(code, contents) ==
    IF pendingStack.pending
    THEN /\ pendingStack' = [pendingStack EXCEPT !.pending = FALSE]
         /\ stackResponse' = stackResponse \o contents
         /\ stackFuture' = code
    ELSE UNCHANGED <<pendingStack, stackResponse, stackFuture>>

----------------------------------------------------------------------------
(* cmd_pipe_reader().                                                      *)

Reading == reader = "running" /\ ~quit

ReaderSkipWord ==
    /\ Reading /\ buffer # <<>> /\ ~IsGoodHeader(buffer[1])
    /\ buffer' = Tail(buffer)
    /\ UNCHANGED <<pc, opVars, ec, superVars, stackAttempt, part, pendingVars,
                   connVars, reader, quit, deviceVars, budgetVars>>

\* A complete frame of type t is at the front of the buffer.
FrameReady(t) == Reading /\ buffer # <<>> /\ buffer[1].t = t
                 /\ CompleteFrame(buffer)
Frame == SubSeq(buffer, 1, FrameEnd(buffer))

\* Mutant: off by one, the frame's last word stays in the buffer.
MutConsumeFrame == buffer' = SubSeq(buffer, FrameEnd(buffer), Len(buffer))

ConsumeFrame == buffer' = SubSeq(buffer, FrameEnd(buffer) + 1, Len(buffer))

ReaderStackError ==
    /\ FrameReady("error")
    /\ buffer' = SubSeq(buffer, buffer[1].n + 2, Len(buffer))
    /\ UNCHANGED <<pc, opVars, ec, superVars, stackAttempt, part, pendingVars,
                   connVars, reader, quit, deviceVars, budgetVars>>

\* ShortSuperFrame, SuperFormatError and SuperReferenceMismatch are protocol
\* errors.
SuperFrameResult ==
    IF \/ buffer[1].n = 0
       \/ buffer[2].t # "ref"
       \/ buffer[2].n # pendingSuper.reference
    THEN "ProtocolError" ELSE "ok"

ReaderSuper ==
    /\ FrameReady("super")
    /\ LET res == SuperFrameResult
       IN  FullfillSuper(res, IF res = "ok" THEN Frame ELSE <<>>)
    /\ ConsumeFrame
    /\ UNCHANGED <<pc, opVars, ec, superVars, stackAttempt, part, pendingStack,
                   stackFuture, stackResponse, connVars, reader, quit,
                   deviceVars, budgetVars>>

StackFrameResult ==
    IF buffer[1].n = 0 \/ buffer[2].n # pendingStack.reference
    THEN "ProtocolError" ELSE "ok"

ReaderStack ==
    /\ FrameReady("stack")
    /\ LET res == StackFrameResult
       IN  FullfillStack(res, IF res = "ok" THEN Frame ELSE <<>>)
    /\ ConsumeFrame
    /\ UNCHANGED <<pc, opVars, ec, superVars, stackAttempt, part, pendingSuper,
                   superFuture, superResponse, connVars, reader, quit,
                   deviceVars, budgetVars>>

\* A complete continuation frame in front is neither handled nor consumed: the
\* loop spins on it until quit is set.
ReaderSpins == FrameReady("superCont") \/ FrameReady("stackCont")

\* The loop leaves the buffer alone and calls read().
ReadsMore ==
    /\ Reading
    /\ buffer # <<>> => IsGoodHeader(buffer[1]) /\ ~CompleteFrame(buffer)

ReaderRead ==
    /\ toHost # <<>> /\ ReadsMore
    /\ buffer' = buffer \o Head(toHost)
    /\ toHost' = Tail(toHost)
    /\ UNCHANGED <<pc, opVars, ec, superVars, stackAttempt, part, pendingVars,
                   connVars, reader, quit, toDevice, status1, executions,
                   budgetVars>>

ReaderReadError ==
    /\ faults < MaxFaults /\ ReadsMore
    /\ faults' = faults + 1
    /\ quit' = TRUE
    /\ UNCHANGED <<pc, opVars, ec, superVars, stackAttempt, part, pendingVars,
                   connVars, reader, buffer, deviceVars, races, noise>>

ReaderLeaveLoop ==
    /\ reader = "running" /\ quit
    /\ reader' = "exitSuper"
    /\ UNCHANGED <<pc, opVars, ec, superVars, stackAttempt, part, pendingVars,
                   connVars, quit, buffer, deviceVars, budgetVars>>

ReaderExitSuper ==
    /\ reader = "exitSuper"
    /\ reader' = "exitStack"
    /\ FullfillSuper("ConnectionError", <<>>)
    /\ UNCHANGED <<pc, opVars, ec, superVars, stackAttempt, part, pendingStack,
                   stackFuture, stackResponse, connVars, quit, buffer,
                   deviceVars, budgetVars>>

ReaderExitStack ==
    /\ reader = "exitStack"
    /\ reader' = "done"
    /\ FullfillStack("ConnectionError", <<>>)
    /\ UNCHANGED <<pc, opVars, ec, superVars, stackAttempt, part, pendingSuper,
                   superFuture, superResponse, connVars, quit, buffer,
                   deviceVars, budgetVars>>

----------------------------------------------------------------------------
(* The MVLC and the link (external).                                       *)

\* The packets a stack's output may arrive in: one frame, or a frame with a
\* continuation, which Ethernet may split anywhere.
StackPackets(ref) ==
    LET first == <<HeaderCont("stack", 1), Word("ref", ref, FALSE)>>
        data  == Word("data", 0, FALSE)
    IN  { <<  <<Header("stack", 1), Word("ref", ref, FALSE)>>  >>,
          << first, <<Header("stackCont", 1), data>> >>,
          << first, <<Header("stackCont", 2), data>>, <<data>> >> }

DeviceAnswer ==
    /\ toDevice # <<>>
    /\ toDevice' = Tail(toDevice)
    /\ LET req == Head(toDevice) IN
         \/ /\ req.stackRef = 0
            /\ toHost' = Append(toHost, SuperFrame(req.ref, status1))
            /\ UNCHANGED <<status1, executions>>
         \/ /\ req.stackRef # 0
            /\ status1' = req.stackRef
            /\ executions' = Append(executions, req.stackRef)
            /\ \E out \in StackPackets(req.stackRef) :
                 toHost' = Append(toHost, SuperFrame(req.ref, 0)) \o out
    /\ UNCHANGED <<pc, opVars, ec, superVars, stackAttempt, part, pendingVars,
                   connVars, readerVars, budgetVars>>

LosePacket ==
    /\ faults < MaxFaults
    /\ faults' = faults + 1
    /\ \/ toDevice # <<>> /\ toDevice' = Tail(toDevice) /\ UNCHANGED toHost
       \/ toHost # <<>> /\ toHost' = Tail(toHost) /\ UNCHANGED toDevice
    /\ UNCHANGED <<pc, opVars, ec, superVars, stackAttempt, part, pendingVars,
                   connVars, readerVars, status1, executions, races, noise>>

Unsolicited ==
    { <<Header("error", 1), Word("data", 0, FALSE)>>,
      <<Word("data", 0, FALSE)>>,
      <<Header("super", 0)>>,
      <<Header("super", 1), Word("data", 0, FALSE)>>,
      <<Header("stack", 0)>> }

DeviceNoise ==
    /\ impl /\ noise < MaxNoise
    /\ noise' = noise + 1
    /\ \E p \in Unsolicited : toHost' = Append(toHost, p)
    /\ UNCHANGED <<pc, opVars, ec, superVars, stackAttempt, part, pendingVars,
                   connVars, readerVars, toDevice, status1, executions, faults,
                   races>>

----------------------------------------------------------------------------
(* CmdApi::superTransaction(), called for: the two register reads of       *)
(* connect() ("hwid", "fwrev"), readRegister/writeRegister ("register"),   *)
(* one part of uploadStack ("upload"), readStackExecStatusRegisters        *)
(* ("status"), and the parse_error_counter register ("parseError").        *)

\* The caller draws a reference number and starts with an empty response.
StartSuper(c) ==
    /\ call' = c
    /\ superRef' = nextSuperReference
    /\ nextSuperReference' = (nextSuperReference + 1) % SuperRefMod
    /\ superAttempt' = 0
    /\ superResponse' = <<>>
    /\ pc' = "superSet"

SuperSet ==
    /\ pc = "superSet"
    /\ SetPendingSuper(superRef)
    /\ superAttempt' = superAttempt + 1
    /\ pc' = "superWrite"
    /\ UNCHANGED <<opVars, ec, call, superRef, nextSuperReference, stackAttempt,
                   part, pendingStack, stackFuture, superResponse, stackResponse,
                   connVars, readerVars, deviceVars, budgetVars>>

\* impl_->write(): the request is on its way, or there is an error.
Write(req, okPc, failPc) ==
    \/ /\ impl
       /\ toDevice' = Append(toDevice, req)
       /\ pc' = okPc
       /\ UNCHANGED <<ec, faults>>
    \/ /\ \/ ~impl /\ ec' = "ConnectionError" /\ UNCHANGED faults
          \/ /\ impl /\ faults < MaxFaults
             /\ faults' = faults + 1
             /\ ec' \in {"Timeout", "ConnectionError"}
       /\ pc' = failPc
       /\ UNCHANGED toDevice

SuperWrite ==
    /\ pc = "superWrite"
    /\ Write([ref |-> superRef, stackRef |-> 0], "superWait", "superFail")
    /\ UNCHANGED <<opVars, superVars, stackAttempt, part, pendingVars, connVars,
                   readerVars, toHost, status1, executions, races, noise>>

\* Nothing under way can still lead to an answer.
Quiet ==
    /\ reader \in {"running", "none", "done"}
    /\ Reading => ReaderSpins \/ (toHost = <<>> /\ toDevice = <<>> /\ ReadsMore)
    /\ reader = "running" => ~quit

\* wait_for(ResultWaitTimeout) expired: because no answer is coming, or
\* because it is late.
TimeOut ==
    /\ \/ Quiet /\ UNCHANGED races
       \/ ~Quiet /\ races < MaxRaces /\ races' = races + 1
    /\ ec' = "Timeout"

\* Mutant: the future is read without checking that it is ready.
MutSuperReady ==
    /\ pc = "superWait"
    /\ ec' = superFuture
    /\ pc' = "superEnd"
    /\ UNCHANGED <<opVars, superVars, stackAttempt, part, pendingVars, connVars,
                   readerVars, deviceVars, budgetVars>>

SuperReady ==
    /\ pc = "superWait" /\ superFuture # "unset"
    /\ ec' = superFuture
    /\ pc' = "superEnd"
    /\ UNCHANGED <<opVars, superVars, stackAttempt, part, pendingVars, connVars,
                   readerVars, deviceVars, budgetVars>>

SuperTimeout ==
    /\ pc = "superWait" /\ superFuture = "unset"
    /\ TimeOut
    /\ pc' = "superFail"
    /\ UNCHANGED <<opVars, superVars, stackAttempt, part, pendingVars, connVars,
                   readerVars, deviceVars, faults, noise>>

\* Mutant: after a timeout the response stays pending.
MutSuperFail ==
    /\ pc = "superFail"
    /\ pc' = "superEnd"
    /\ UNCHANGED <<opVars, ec, superVars, stackAttempt, part, pendingVars,
                   connVars, readerVars, deviceVars, budgetVars>>

\* The answer may have come in since: the error is returned all the same.
SuperFail ==
    /\ pc = "superFail"
    /\ FullfillSuper(ec, <<>>)
    /\ pc' = "superEnd"
    /\ UNCHANGED <<opVars, ec, superVars, stackAttempt, part, pendingStack,
                   stackFuture, stackResponse, connVars, readerVars, deviceVars,
                   budgetVars>>

SuperRetry ==
    /\ pc = "superEnd"
    /\ ec # "ok" /\ superAttempt < TransactionMaxAttempts
    /\ pc' = "superSet"
    /\ UNCHANGED <<opVars, ec, superVars, stackAttempt, part, pendingVars,
                   connVars, readerVars, deviceVars, budgetVars>>

\* superTransaction() returns to its caller.
SuperReturns == pc = "superEnd" /\ (ec = "ok" \/ superAttempt >= TransactionMaxAttempts)

\* Mutant: the size of the response is not checked.
MutRegisterResult == ec

\* readRegister() and writeRegister(): UnexpectedResponseSize.
RegisterResult ==
    IF ec = "ok" /\ Len(superResponse) # ResponseSize THEN "ProtocolError" ELSE ec

RegisterReturns ==
    /\ SuperReturns /\ call = "register"
    /\ ec' = RegisterResult
    /\ pc' = "return"
    /\ UNCHANGED <<opVars, superVars, stackAttempt, part, pendingVars, connVars,
                   readerVars, deviceVars, budgetVars>>

----------------------------------------------------------------------------
(* CmdApi::stackTransaction().                                             *)

\* uploadStack(): the next part, or StackMemoryExceeded in the last part of a
\* stack that does not fit.
UploadPart(p) ==
    /\ part' = p
    /\ \/ (op'.fits \/ p < op'.parts) /\ StartSuper("upload") /\ UNCHANGED ec
       \/ /\ ~op'.fits /\ p = op'.parts
          /\ nextSuperReference' = (nextSuperReference + 1) % SuperRefMod
          /\ ec' = "ProtocolError"
          /\ pc' = "stackEnd"
          /\ UNCHANGED <<call, superAttempt, superRef, superResponse>>

UploadReturns ==
    /\ SuperReturns /\ call = "upload"
    /\ op' = op
    /\ \/ ec = "ok" /\ part < op.parts /\ UploadPart(part + 1)
       \/ /\ ec = "ok" /\ part = op.parts
          /\ pc' = "execSetSuper"
          /\ UNCHANGED <<ec, superVars, part, superResponse>>
       \/ /\ ec # "ok"
          /\ pc' = "stackEnd"
          /\ UNCHANGED <<ec, superVars, part, superResponse>>
    /\ UNCHANGED <<stackRef, nextStackReference, ops, stackAttempt, pendingSuper,
                   pendingStack, superFuture, stackFuture, stackResponse,
                   connVars, readerVars, deviceVars, budgetVars>>

\* stackTransactionImpl(), after the upload.
ExecSetSuper ==
    /\ pc = "execSetSuper"
    /\ superRef' = nextSuperReference
    /\ nextSuperReference' = (nextSuperReference + 1) % SuperRefMod
    /\ SetPendingSuper(nextSuperReference)
    /\ superResponse' = <<>>
    /\ pc' = "execSetStack"
    /\ UNCHANGED <<opVars, ec, call, superAttempt, stackAttempt, part,
                   pendingStack, stackFuture, stackResponse, connVars,
                   readerVars, deviceVars, budgetVars>>

ExecSetStack ==
    /\ pc = "execSetStack"
    /\ SetPendingStack(stackRef)
    /\ pc' = "execWrite"
    /\ UNCHANGED <<opVars, ec, superVars, stackAttempt, part, pendingSuper,
                   superFuture, superResponse, stackResponse, connVars,
                   readerVars, deviceVars, budgetVars>>

ExecWrite ==
    /\ pc = "execWrite"
    /\ Write([ref |-> superRef, stackRef |-> stackRef], "execWaitSuper",
             "execFailSuper")
    /\ UNCHANGED <<opVars, superVars, stackAttempt, part, pendingVars, connVars,
                   readerVars, toHost, status1, executions, races, noise>>

ExecSuperReady ==
    /\ pc = "execWaitSuper" /\ superFuture # "unset"
    /\ ec' = superFuture
    /\ pc' = IF superFuture = "ok" THEN "execWaitStack" ELSE "execFailStack"
    /\ UNCHANGED <<opVars, superVars, stackAttempt, part, pendingVars, connVars,
                   readerVars, deviceVars, budgetVars>>

ExecSuperTimeout ==
    /\ pc = "execWaitSuper" /\ superFuture = "unset"
    /\ TimeOut
    /\ pc' = "execFailSuper"
    /\ UNCHANGED <<opVars, superVars, stackAttempt, part, pendingVars, connVars,
                   readerVars, deviceVars, faults, noise>>

ExecFailSuper ==
    /\ pc = "execFailSuper"
    /\ FullfillSuper(ec, <<>>)
    /\ pc' = "execFailStack"
    /\ UNCHANGED <<opVars, ec, superVars, stackAttempt, part, pendingStack,
                   stackFuture, stackResponse, connVars, readerVars, deviceVars,
                   budgetVars>>

ExecFailStack ==
    /\ pc = "execFailStack"
    /\ FullfillStack(ec, <<>>)
    /\ pc' = "stackEnd"
    /\ UNCHANGED <<opVars, ec, superVars, stackAttempt, part, pendingSuper,
                   superFuture, superResponse, connVars, readerVars, deviceVars,
                   budgetVars>>

ExecStackReady ==
    /\ pc = "execWaitStack" /\ stackFuture # "unset"
    /\ ec' = stackFuture
    /\ pc' = "stackEnd"
    /\ UNCHANGED <<opVars, superVars, stackAttempt, part, pendingVars, connVars,
                   readerVars, deviceVars, budgetVars>>

ExecStackTimeout ==
    /\ pc = "execWaitStack" /\ stackFuture = "unset"
    /\ TimeOut
    /\ pc' = "execFailStack"
    /\ UNCHANGED <<opVars, superVars, stackAttempt, part, pendingVars, connVars,
                   readerVars, deviceVars, faults, noise>>

\* Neither a VME error nor a protocol error: ask the MVLC what it executed.
StackEnd ==
    /\ pc = "stackEnd"
    /\ \/ ec \notin {"ok", "ProtocolError"} /\ StartSuper("status")
       \/ /\ ec \in {"ok", "ProtocolError"}
          /\ pc' = "stackLoop"
          /\ UNCHANGED <<superVars, superResponse>>
    /\ UNCHANGED <<opVars, ec, stackAttempt, part, pendingSuper, pendingStack,
                   superFuture, stackFuture, stackResponse, connVars, readerVars,
                   deviceVars, budgetVars>>

\* An error of the status read leaves the loop.  Otherwise ec is set to
\* StackExecResponseLost (or the flags' error) or StackExecRequestLost, and
\* then overwritten with the result of reading parse_error_counter.
StatusReturns ==
    /\ SuperReturns /\ call = "status"
    /\ \/ /\ RegisterResult # "ok"
          /\ ec' = RegisterResult
          /\ pc' = "return"
          /\ UNCHANGED <<superVars, superResponse>>
       \/ /\ RegisterResult = "ok"
          /\ ec' = "ConnectionError"
          /\ StartSuper("parseError")
    /\ UNCHANGED <<opVars, stackAttempt, part, pendingSuper, pendingStack,
                   superFuture, stackFuture, stackResponse, connVars, readerVars,
                   deviceVars, budgetVars>>

ParseErrorReturns ==
    /\ SuperReturns /\ call = "parseError"
    /\ ec' = RegisterResult
    /\ pc' = "stackLoop"
    /\ UNCHANGED <<opVars, superVars, stackAttempt, part, pendingVars, connVars,
                   readerVars, deviceVars, budgetVars>>

StackLoop ==
    /\ pc = "stackLoop"
    /\ op' = op
    /\ \/ /\ ec # "ok" /\ stackAttempt + 1 < TransactionMaxAttempts
          /\ stackAttempt' = stackAttempt + 1
          /\ UploadPart(1)
       \/ /\ ec = "ok" \/ stackAttempt + 1 >= TransactionMaxAttempts
          /\ pc' = "return"
          /\ UNCHANGED <<ec, superVars, part, superResponse, stackAttempt>>
    /\ UNCHANGED <<stackRef, nextStackReference, ops, pendingSuper, pendingStack,
                   superFuture, stackFuture, stackResponse, connVars, readerVars,
                   deviceVars, budgetVars>>

----------------------------------------------------------------------------
(* Public calls of class MVLC.  Each holds the command lock (connect and   *)
(* disconnect both locks) from its first step until pc is "idle" again.    *)

Begin(o) ==
    /\ pc = "idle" /\ ops < MaxOps
    /\ ops' = ops + 1
    /\ op' = o

BeginRegister ==
    /\ \E o \in Ops : o.kind = "register" /\ Begin(o)
    /\ StartSuper("register")
    /\ UNCHANGED <<ec, stackRef, nextStackReference, stackAttempt, part,
                   pendingSuper, pendingStack, superFuture, stackFuture,
                   stackResponse, connVars, readerVars, deviceVars, budgetVars>>

BeginStack ==
    /\ \E o \in Ops : o.kind = "stack" /\ Begin(o)
    /\ stackRef' = nextStackReference
    /\ nextStackReference' = nextStackReference + 1
    /\ stackAttempt' = 0
    /\ stackResponse' = <<>>
    /\ UploadPart(1)
    /\ UNCHANGED <<pendingSuper, pendingStack, superFuture, stackFuture,
                   connVars, readerVars, deviceVars, budgetVars>>

\* resultCheck(), then the lock is released.
Return ==
    /\ pc = "return"
    /\ isConnected' = (isConnected /\ ec # "ConnectionError")
    /\ pc' = "idle"
    /\ UNCHANGED <<opVars, ec, superVars, stackAttempt, part, pendingVars, impl,
                   readerVars, deviceVars, budgetVars>>

ConnectIsConnected ==
    /\ \E o \in Ops : o.kind = "connect" /\ Begin(o)
    /\ impl
    /\ isConnected' = TRUE
    /\ UNCHANGED <<pc, stackRef, nextStackReference, ec, superVars, stackAttempt,
                   part, pendingVars, impl, readerVars, deviceVars, budgetVars>>

\* impl_->connect() succeeds on fresh sockets and a new reader starts with an
\* empty buffer.  readerThread_ is not joinable here (see ReaderLifetime).
Connect ==
    /\ \E o \in Ops : o.kind = "connect" /\ Begin(o)
    /\ ~impl
    /\ impl' = TRUE
    /\ isConnected' = TRUE
    /\ reader' = "running" /\ quit' = FALSE /\ buffer' = <<>>
    /\ toHost' = <<>> /\ toDevice' = <<>>
    /\ StartSuper("hwid")
    /\ UNCHANGED <<stackRef, nextStackReference, ec, stackAttempt, part,
                   pendingSuper, pendingStack, superFuture, stackFuture,
                   stackResponse, status1, executions, budgetVars>>

ConnectFails ==
    /\ \E o \in Ops : o.kind = "connect" /\ Begin(o)
    /\ ~impl /\ faults < MaxFaults
    /\ faults' = faults + 1
    /\ isConnected' = FALSE
    /\ UNCHANGED <<pc, stackRef, nextStackReference, ec, superVars, stackAttempt,
                   part, pendingVars, impl, readerVars, deviceVars, races, noise>>

HardwareIdReturns ==
    /\ SuperReturns /\ call = "hwid" /\ RegisterResult = "ok"
    /\ StartSuper("fwrev")
    /\ UNCHANGED <<opVars, ec, stackAttempt, part, pendingSuper, pendingStack,
                   superFuture, stackFuture, stackResponse, connVars, readerVars,
                   deviceVars, budgetVars>>

\* connect() is done; there is no resultCheck().
FirmwareReturns ==
    /\ SuperReturns /\ call = "fwrev" /\ RegisterResult = "ok"
    /\ pc' = "idle"
    /\ UNCHANGED <<opVars, ec, superVars, stackAttempt, part, pendingVars,
                   connVars, readerVars, deviceVars, budgetVars>>

ConnectGivesUp ==
    /\ SuperReturns /\ call \in {"hwid", "fwrev"} /\ RegisterResult # "ok"
    /\ isConnected' = FALSE
    /\ quit' = TRUE
    /\ pc' = "connectJoin"
    /\ UNCHANGED <<opVars, ec, superVars, stackAttempt, part, pendingVars, impl,
                   reader, buffer, deviceVars, budgetVars>>

\* stopCmdReader() joins the thread; the impl stays connected.
ConnectJoin ==
    /\ pc = "connectJoin" /\ reader = "done"
    /\ reader' = "none"
    /\ pc' = "idle"
    /\ UNCHANGED <<opVars, ec, superVars, stackAttempt, part, pendingVars,
                   connVars, quit, buffer, deviceVars, budgetVars>>

Disconnect ==
    /\ \E o \in Ops : o.kind = "disconnect" /\ Begin(o)
    /\ \/ impl /\ pc' = "disconnectJoin"
          /\ quit' = (quit \/ reader # "none")
       \/ ~impl /\ UNCHANGED <<pc, quit>>
    /\ UNCHANGED <<stackRef, nextStackReference, ec, superVars, stackAttempt,
                   part, pendingVars, connVars, reader, buffer, deviceVars,
                   budgetVars>>

\* Mutant: disconnect() does not wait for the reader thread.
MutDisconnectJoin ==
    /\ pc = "disconnectJoin"
    /\ impl' = FALSE /\ isConnected' = FALSE
    /\ pc' = "idle"
    /\ UNCHANGED <<opVars, ec, superVars, stackAttempt, part, pendingVars,
                   readerVars, deviceVars, budgetVars>>

DisconnectJoin ==
    /\ pc = "disconnectJoin" /\ reader \in {"none", "done"}
    /\ reader' = "none"
    /\ impl' = FALSE /\ isConnected' = FALSE
    /\ pc' = "idle"
    /\ UNCHANGED <<opVars, ec, superVars, stackAttempt, part, pendingVars, quit,
                   buffer, deviceVars, budgetVars>>

----------------------------------------------------------------------------
Begins == BeginRegister \/ BeginStack \/ ConnectIsConnected \/ Connect
          \/ ConnectFails \/ Disconnect
Api ==
    \/ SuperSet \/ SuperWrite \/ SuperReady \/ SuperTimeout \/ SuperFail
    \/ SuperRetry \/ RegisterReturns \/ UploadReturns
    \/ ExecSetSuper \/ ExecSetStack \/ ExecWrite \/ ExecSuperReady
    \/ ExecSuperTimeout \/ ExecFailSuper \/ ExecFailStack \/ ExecStackReady
    \/ ExecStackTimeout \/ StackEnd \/ StatusReturns \/ ParseErrorReturns
    \/ StackLoop \/ Return \/ HardwareIdReturns \/ FirmwareReturns
    \/ ConnectGivesUp \/ ConnectJoin \/ DisconnectJoin
Reader ==
    \/ ReaderSkipWord \/ ReaderStackError \/ ReaderSuper \/ ReaderStack
    \/ ReaderRead \/ ReaderLeaveLoop \/ ReaderExitSuper \/ ReaderExitStack
Device == DeviceAnswer
Environment == ReaderReadError \/ LosePacket \/ DeviceNoise

Next == Begins \/ Api \/ Reader \/ Device \/ Environment

Spec == Init /\ [][Next]_vars

\* The API thread, the reader thread and the MVLC keep running.
FairSpec == Spec /\ WF_vars(Api) /\ WF_vars(Reader) /\ WF_vars(Device)

----------------------------------------------------------------------------
(* Properties.                                                             *)

Results == {"ok", "Timeout", "ProtocolError", "ConnectionError"}
Words == [t : {"super", "superCont", "stack", "stackCont", "error", "ref",
               "value", "data"}, n : Nat, cont : BOOLEAN]
Pendings == [pending : BOOLEAN, reference : Nat]

ControlTypes ==
    /\ pc \in {"idle", "superSet", "superWrite", "superWait", "superFail",
               "superEnd", "execSetSuper", "execSetStack", "execWrite",
               "execWaitSuper", "execFailSuper", "execWaitStack",
               "execFailStack", "stackEnd", "stackLoop", "return",
               "connectJoin", "disconnectJoin"}
    /\ op \in [kind : Kinds, parts : Nat, fits : BOOLEAN]
    /\ call \in {"hwid", "fwrev", "register", "upload", "status", "parseError"}
    /\ ec \in Results
    /\ superFuture \in Results \cup {"unset"}
    /\ stackFuture \in Results \cup {"unset"}
    /\ {impl, isConnected, quit} \subseteq BOOLEAN
    /\ reader \in {"none", "running", "exitSuper", "exitStack", "done"}
CounterTypes ==
    /\ {superAttempt, stackAttempt, part, superRef, stackRef} \subseteq Nat
    /\ {nextSuperReference, nextStackReference, status1} \subseteq Nat
    /\ {ops, faults, races, noise} \subseteq Nat
DataTypes ==
    /\ pendingSuper \in Pendings /\ pendingStack \in Pendings
    /\ superResponse \in Seq(Words) /\ stackResponse \in Seq(Words)
    /\ buffer \in Seq(Words) /\ toHost \in Seq(Seq(Words))
    /\ toDevice \in Seq([ref : Nat, stackRef : Nat])
    /\ executions \in Seq(Nat)
TypeOK == ControlTypes /\ CounterTypes /\ DataTypes

\* Where a response vector is still alive for the reader to write into.
SuperAlive == {"superWrite", "superWait", "superFail", "execSetStack",
               "execWrite", "execWaitSuper", "execFailSuper"}
StackAlive == {"execWrite", "execWaitSuper", "execFailSuper", "execWaitStack",
               "execFailStack"}

\* The reader is only ever left with a pending response whose destination
\* vector, a local of the waiting call, still exists and whose reference is
\* that call's: on every path out of superTransactionImpl() and
\* stackTransactionImpl(), however timeout, write error, late answer and reader
\* exit interleave, both responses have been fulfilled.  Hence the wait for
\* !pending in set_pending_response() never blocks.
PendingOwned ==
    /\ pendingSuper.pending => pc \in SuperAlive /\ pendingSuper.reference = superRef
    /\ pendingStack.pending => pc \in StackAlive /\ pendingStack.reference = stackRef

\* A response is empty or begins with the reference ref.
Answers(response, ref) ==
    response # <<>> =>
        Len(response) > 1 /\ response[2].t = "ref" /\ response[2].n = ref

Executed(ref) == \E i \in DOMAIN executions : executions[i] = ref

\* A register operation that returns success returns the answer to its own
\* request and nothing else, whatever late answers of earlier transactions come
\* in: a second answer to a repeated request is refused by the size check.
RegisterAnswerIsOwn ==
    pc = "return" /\ op.kind = "register" /\ ec = "ok" =>
        Len(superResponse) = ResponseSize /\ Answers(superResponse, superRef)

\* What a stack transaction hands to its caller, with whatever result, begins
\* with the output of its own stack, which the MVLC did execute.
StackAnswerIsOwn ==
    /\ Answers(stackResponse, stackRef)
    /\ stackResponse # <<>> => Executed(stackRef)

\* A stack transaction that succeeds hands nothing of another transaction to its
\* caller, even when a continuation is lost and the reader joins the rest with
\* the next frame (an unsolicited frame may be joined that way).
StackAnswerIsPure ==
    pc = "return" /\ op.kind = "stack" /\ ec = "ok" =>
        \A i \in DOMAIN stackResponse :
            /\ stackResponse[i].t # "value"
            /\ stackResponse[i].t = "ref" => stackResponse[i].n = stackRef

\* The assert of connect(), "The cmd reader should be stopped as this point.",
\* and the assert of disconnect() that isConnected_ agrees with the impl.
ReaderLifetime == pc = "idle" /\ ~impl => reader = "none" /\ ~isConnected

\* Every public call returns and so releases the command lock.
CallsReturn == []<>(pc = "idle")

\* The reader keeps serving the pipe, whatever late or malformed frames come in:
\* what has arrived is read, unless the reader was told to stop.  Once a packet
\* is lost it may spin on a frame it has no case for (ReaderSpins).
ReaderServes == toHost # <<>> ~> (toHost = <<>> \/ quit \/ faults > 0)

----------------------------------------------------------------------------
(* What the comments and asserts of the code say and the code does not do: *)
(* see the findings and the observations in the README.                    *)

\* mvlc_constants.h, stack_exec_status: "Retry code in mvlc.cc can now ensure
\* that retries are only done if the transaction has not been performed yet."
ExecutedOnce == \A i, j \in DOMAIN executions :
                    executions[i] = executions[j] => i = j

\* stackTransaction(): "Extract the status flags from the status0 and return an
\* appropriate response code." / "did not execute the stack => retry": success
\* is only returned with a response.
StackSuccessHasResponse ==
    pc = "return" /\ op.kind = "stack" /\ ec = "ok" => stackResponse # <<>>

\* readStackExecStatusRegisters(): assert(response.size() == 6).
StatusResponseSize ==
    SuperReturns /\ call = "status" /\ ec = "ok" => Len(superResponse) = ResponseSize

\* contains_complete_frame(): assert(!"bad header word").
NoBadHeaderWord ==
    ReadsMore /\ buffer # <<>> /\ buffer[1].cont /\ buffer[1].n + 2 \in DOMAIN buffer
        => IsGoodHeader(buffer[buffer[1].n + 2])

\* An answer reaches the transaction that asked for it: what readRegister(),
\* writeRegister() and the stack calls return was sent for their own reference.
AnswersAreOwn == TypeOK /\ RegisterAnswerIsOwn /\ StackAnswerIsOwn

\* The command pipe keeps working: every call returns, and as long as no packet is lost
\* the reader takes up what arrives (cmd_pipe_reader, the waits of the transactions).
CommandsServed == CallsReturn /\ ReaderServes

-----------------------------------------------------------------------------
(* The public calls of the small instances                                 *)

Call(kind, parts, fits) == [kind |-> kind, parts |-> parts, fits |-> fits]

\* connect, disconnect, register access, a stack of two parts and one that
\* exceeds stack memory
OpsAll == {Call("connect", 1, TRUE), Call("disconnect", 1, TRUE),
           Call("register", 1, TRUE), Call("stack", 2, TRUE),
           Call("stack", 1, FALSE)}
============================================================================
