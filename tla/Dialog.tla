------------------------------ MODULE Dialog ------------------------------
(***************************************************************************)
(* MVLCDialog_internal (mvlc_dialog.cc): one caller that writes a request  *)
(* to the command pipe and reads until the matching frame comes back.      *)
(* Requests that time out are written again, so that the MVLC may execute  *)
(* them twice and answer long after the caller gave up.  The pipe keeps    *)
(* the order but may lose requests and answers and may deliver a frame in  *)
(* two pieces.  Answers of stacks carry nothing that tells whose they are. *)
(***************************************************************************)
EXTENDS Integers, Sequences, SequencesExt

CONSTANTS
    Calls,              \* subset of {"readRegister", "writeRegister", "vmeRead", "execStack"}
    Stacks,             \* contents of stacks, numbers
    MirrorMaxRetries,
    RefModulus,         \* reference words are u16
    MaxDialogCalls,     \* bound
    MaxPipeFaults,      \* bound: lost, late and cut transfers
    MaxNotifications    \* bound: stack error notifications

VARIABLES
    requests,           \* written, not yet executed
    pipe,               \* frames on the way back
    register, stackMemory,  \* the MVLC: a register; the stack in stack memory
    pipeFaults, notifications,
    call, id, content,  \* the call under way ("none": no call), its number, and
                        \* the stack it uploads
    line,               \* its transaction, an index of Transactions(call)
    request, tries,     \* superTransaction()
    reading,            \* the kind of frame readResponse() waits for; "none": it writes
    referenceWord,      \* m_referenceWord
    dest, answer,       \* the stack response: <<stack, whose trigger>>; the register
    status, last,       \* result of the last call, and its kind
    stackErrors,        \* m_stackErrorCounters
    written             \* the value of the last writeRegister() that succeeded; -1

dialogVars == <<requests, pipe, register, stackMemory, pipeFaults, notifications, call,
                id, content, line, request, tries, reading, referenceWord, dest, answer,
                status, last, stackErrors, written>>
mvlcVars == <<register, stackMemory>>

\* The transactions of a call.  "stack" stands for reading the response.
Transactions(c) ==
    CASE c = "readRegister"  -> <<"read">>
      [] c = "writeRegister" -> <<"write">>
      [] c = "vmeRead"       -> <<"upload", "offset", "trigger", "stack">>
      [] c = "execStack"     -> <<"part1", "part2", "offset", "trigger", "stack">>
      [] OTHER               -> <<>>

NoRequest == [ref |-> 0, cmd |-> "none", arg |-> 0, by |-> 0]

\* make_command_buffer(): uploadStack() sends its parts without a reference.
\* Of the arguments only the uploaded stack and the written value differ
\* between calls; "by" records whose request it is.
MakeRequest(cmd, ref, stack, n) ==
    [ref |-> IF cmd \in {"part1", "part2"} THEN 0 ELSE ref, cmd |-> cmd,
     arg |-> CASE cmd \in {"upload", "part1", "part2"} -> stack
               [] cmd = "write" -> n
               [] OTHER -> 0,
     by |-> n]

Init ==
    /\ requests = <<>> /\ pipe = <<>> /\ register = 0 /\ stackMemory = 0
    /\ pipeFaults = 0 /\ notifications = 0
    /\ call = "none" /\ id = 0 /\ content = 0 /\ line = 0 /\ request = NoRequest /\ tries = 0
    /\ reading = "none" /\ referenceWord = 1 /\ dest = <<>> /\ answer = -1
    /\ status = "none" /\ last = "none" /\ stackErrors = 0 /\ written = -1

-----------------------------------------------------------------------------
\* External: the MVLC executes the next request, and the mirror of it goes
\* back with the value read.  The immediate trigger runs the uploaded stack,
\* whose output is one frame or two.
Frame(t, r, value, more) == [type |-> t, ref |-> r.ref, cmd |-> r.cmd, arg |-> r.arg,
                             by |-> r.by, value |-> value, more |-> more]
Mirror(r) == Frame("super", r, register, FALSE)
Other(t) == Frame(t, NoRequest, 0, FALSE)
StackFrame(t, r, more) == Frame(t, [NoRequest EXCEPT !.by = r.by], stackMemory, more)

Execute ==
    /\ requests # <<>>
    /\ requests' = Tail(requests)
    /\ LET r == Head(requests) IN
       /\ register' = IF r.cmd = "write" THEN r.arg ELSE register
       /\ stackMemory' = IF r.cmd \in {"upload", "part2"} THEN r.arg ELSE stackMemory
       /\ \/ r.cmd # "trigger" /\ pipe' = Append(pipe, Mirror(r))
          \/ r.cmd = "trigger" /\ pipe' = pipe \o <<Mirror(r), StackFrame("stack", r, FALSE)>>
          \/ r.cmd = "trigger" /\ pipe' = pipe \o <<Mirror(r), StackFrame("stack", r, TRUE),
                                                    StackFrame("continuation", r, FALSE)>>
    /\ UNCHANGED <<pipeFaults, notifications, call, id, content, line, request, tries, reading,
                   referenceWord, dest, answer, status, last, stackErrors, written>>

\* External: another stack fails.
Notify ==
    /\ notifications < MaxNotifications
    /\ notifications' = notifications + 1
    /\ pipe' = Append(pipe, Other("error"))
    /\ UNCHANGED <<requests, mvlcVars, pipeFaults, call, id, content, line, request, tries, reading,
                   referenceWord, dest, answer, status, last, stackErrors, written>>

Lose ==
    /\ pipeFaults < MaxPipeFaults
    /\ pipeFaults' = pipeFaults + 1
    /\ \/ requests # <<>> /\ requests' = Tail(requests) /\ UNCHANGED pipe
       \/ pipe # <<>> /\ pipe' = Front(pipe) /\ UNCHANGED requests
    /\ UNCHANGED <<mvlcVars, notifications, call, id, content, line, request, tries, reading,
                   referenceWord, dest, answer, status, last, stackErrors, written>>

-----------------------------------------------------------------------------
\* The next transaction of the call; "stack" only reads.
Begin(c, n, stack, i) ==
    LET t == Transactions(c)[i] IN
    /\ line' = i /\ tries' = 0
    /\ IF t = "stack"
       THEN reading' = "stack" /\ dest' = <<>> /\ UNCHANGED <<request, referenceWord>>
       ELSE /\ reading' = "none" /\ UNCHANGED dest
            /\ request' = MakeRequest(t, referenceWord, stack, n)
            /\ referenceWord' = IF request'.ref = 0 THEN referenceWord
                                ELSE (referenceWord + 1) % RefModulus

Call(c, stack) ==
    /\ call = "none" /\ id < MaxDialogCalls
    /\ call' = c /\ id' = id + 1 /\ content' = stack
    /\ answer' = -1 /\ status' = "none"
    /\ Begin(c, id + 1, stack, 1)
    /\ UNCHANGED <<requests, pipe, mvlcVars, pipeFaults, notifications, last, stackErrors, written>>

Finish(result) ==
    /\ call' = "none" /\ line' = 0 /\ tries' = 0 /\ reading' = "none"
    /\ request' = NoRequest /\ status' = result /\ last' = call
    /\ UNCHANGED <<id, content, referenceWord>>

\* The write of superTransaction(); it may time out itself.
doWrite ==
    /\ call # "none" /\ reading = "none"
    /\ requests' = Append(requests, request)
    /\ reading' = "super" /\ tries' = tries + 1
    /\ UNCHANGED <<pipe, mvlcVars, pipeFaults, notifications, call, id, content, line, request,
                   referenceWord, dest, answer, status, last, stackErrors, written>>

\* A read that times out, because there is nothing to come, because the answer
\* is late, or in the middle of a frame, the rest of which comes later.  Only superTransaction() tries again.
Rest == Other("rest")
ReadTimeout ==
    /\ reading # "none"
    /\ \/ pipe = <<>> /\ requests = <<>> /\ UNCHANGED <<pipe, pipeFaults>>
       \/ /\ pipe = <<>> /\ requests # <<>> /\ pipeFaults < MaxPipeFaults
          /\ pipeFaults' = pipeFaults + 1 /\ UNCHANGED pipe
       \/ /\ pipe # <<>> /\ Head(pipe).type # "rest" /\ pipeFaults < MaxPipeFaults
          /\ pipe' = <<Rest>> \o Tail(pipe) /\ pipeFaults' = pipeFaults + 1
    /\ IF reading = "super" /\ tries < MirrorMaxRetries
       THEN reading' = "none"
            /\ UNCHANGED <<call, id, content, line, request, tries, referenceWord, status, last>>
       ELSE Finish("timeout")
    /\ UNCHANGED <<requests, mvlcVars, notifications, dest, answer, stackErrors, written>>

\* Mutant: the reference word is left out of the comparison.
Mutcheck_mirror(f) == f.cmd = request.cmd /\ f.arg = request.arg

\* Mutant: the response is of the right size and kind.
MutMirrorKind(f) == f.cmd = request.cmd

check_mirror(f) == f.ref = request.ref /\ f.cmd = request.cmd /\ f.arg = request.arg

\* readKnownBuffer(): a word that is no known header is an error.
ReadRest ==
    /\ reading # "none" /\ pipe # <<>> /\ Head(pipe).type = "rest"
    /\ pipe' = Tail(pipe)
    /\ Finish("InvalidBufferHeader")
    /\ UNCHANGED <<requests, mvlcVars, pipeFaults, notifications, dest, answer,
                   stackErrors, written>>

\* readResponse() counts the notifications on its way.
ReadNotification ==
    /\ reading # "none" /\ pipe # <<>> /\ Head(pipe).type = "error"
    /\ pipe' = Tail(pipe) /\ stackErrors' = stackErrors + 1
    /\ UNCHANGED <<requests, mvlcVars, pipeFaults, notifications, call, id, content, line, request,
                   tries, reading, referenceWord, dest, answer, status, last, written>>

ReadOther ==
    /\ reading # "none" /\ pipe # <<>> /\ Head(pipe).type \notin {"rest", "error", reading}
    /\ pipe' = Tail(pipe)
    /\ Finish("UnexpectedBufferHeader")
    /\ UNCHANGED <<requests, mvlcVars, pipeFaults, notifications, dest, answer,
                   stackErrors, written>>

\* The mirror has come: the transaction is over, and with the last one the call.
ReadMirror ==
    /\ reading = "super" /\ pipe # <<>> /\ Head(pipe).type = "super"
    /\ pipe' = Tail(pipe)
    /\ LET f == Head(pipe) IN
       \/ ~check_mirror(f) /\ Finish("MirrorNotEqual") /\ UNCHANGED <<dest, answer, written>>
       \/ /\ check_mirror(f) /\ line < Len(Transactions(call))
          /\ Begin(call, id, content, line + 1) /\ UNCHANGED <<call, id, content, status, last, answer, written>>
       \/ /\ check_mirror(f) /\ line = Len(Transactions(call))
          /\ Finish("ok") /\ UNCHANGED dest
          /\ answer' = IF request.cmd = "read" THEN f.value ELSE -1
          /\ written' = IF request.cmd = "write" THEN request.arg ELSE written
    /\ UNCHANGED <<requests, mvlcVars, pipeFaults, notifications, stackErrors>>

\* A frame of the stack response; the Continue bit asks for the next one.
ReadStack ==
    /\ reading \in {"stack", "continuation"} /\ pipe # <<>> /\ Head(pipe).type = reading
    /\ pipe' = Tail(pipe)
    /\ dest' = Append(dest, <<Head(pipe).value, Head(pipe).by>>)
    /\ \/ /\ Head(pipe).more /\ reading' = "continuation"
          /\ UNCHANGED <<call, id, content, line, request, tries, referenceWord, status, last, answer>>
       \/ ~Head(pipe).more /\ Finish("ok") /\ UNCHANGED answer
    /\ UNCHANGED <<requests, mvlcVars, pipeFaults, notifications, stackErrors, written>>

Caller == doWrite \/ ReadTimeout \/ ReadRest \/ ReadNotification \/ ReadOther
          \/ ReadMirror \/ ReadStack
Next == Execute \/ Notify \/ Lose \/ (\E c \in Calls, stack \in Stacks : Call(c, stack)) \/ Caller

Spec == Init /\ [][Next]_dialogVars

-----------------------------------------------------------------------------
\* A stack call that succeeds returns the output of the stack it uploaded, run
\* for this very call, although a stack frame itself does not tell: answers to
\* earlier calls that came too late end in an error (superTransaction(),
\* stackTransaction(), execImmediateStack()).  A register is never read as it was
\* before the last successful write.
OwnAnswer ==
    status = "ok" =>
        /\ last \in {"vmeRead", "execStack"} => \A i \in DOMAIN dest : dest[i] = <<content, id>>
        /\ last = "readRegister" => answer >= written

\* The MVLC never holds an older value than the last one whose writeRegister()
\* succeeded: repeated and late writes are executed before, not after.
WriteStands == written # -1 => register >= written
=============================================================================
