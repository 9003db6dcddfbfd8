----------------------------- MODULE MCServices -----------------------------
(***************************************************************************)
(* Small instances of what the threads of a readout share: a behaviour is  *)
(* about the locks of the two pipes, about the queues and states the       *)
(* threads wait for, or about the stack error counters.                    *)
(***************************************************************************)
EXTENDS TicketMutex, WaitQueues, StackErrors

VARIABLE part           \* what this behaviour is about

serviceVars == <<part, mutexVars, errorVars, queueVars>>

ServicesInit == /\ part \in {"locks", "errors", "queues"}
                /\ Init /\ ErrorsInit /\ QueuesInit

\* Steps of the parts, in the behaviours that are about them.
Locking(A)  == part = "locks" /\ A /\ UNCHANGED <<part, errorVars, queueVars>>
Counting(A) == part = "errors" /\ A /\ UNCHANGED <<part, mutexVars, queueVars>>
Queueing(A) == part = "queues" /\ A /\ UNCHANGED <<part, mutexVars, errorVars>>

ServicesNext == Locking(Next) \/ Counting(ErrorsNext) \/ Queueing(QueuesNext)

ServicesSpec ==
    /\ ServicesInit /\ [][ServicesNext]_serviceVars
    /\ \A t \in Threads : WF_serviceVars(Locking(Step(t)))

\* What the threads tell each other is true: a buffer of the queues is at one place
\* (ReadoutBufferQueues_), a ticket is a number the counter can hold, and the stack
\* errors of a run are in its listfile as they were counted (StackErrorsPlugin), once
\* one was counted after the plugin started.
SharedStateTrue == TypeOK /\ OnePlace /\ ErrorsRecorded
=============================================================================
