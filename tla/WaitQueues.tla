----------------------------- MODULE WaitQueues -----------------------------
(***************************************************************************)
(* What the threads of a readout exchange data and states through: the two *)
(* queues of ReadoutBufferQueues (ThreadSafeQueue, util/threadsafequeue.h) *)
(* and a state others wait for (WaitableProtected, util/protected.h).      *)
(* Each is guarded by a mutex and has a condition variable.  A thread that *)
(* changes one unlocks it before it notifies; a thread that waits checks   *)
(* its condition under the lock, before and after it sleeps, and may wake  *)
(* up for no reason or because its time is over.                           *)
(* The mutex is a TicketMutex (module TicketMutex); here any thread that   *)
(* asked for it may get it.                                                *)
(***************************************************************************)
EXTENDS Naturals, Sequences

CONSTANTS Callers,      \* threads
          BufferCount,  \* size of m_bufferStorage
          Values        \* of the protected state, with the 0 it starts as

ASSUME BufferAssumption == BufferCount \in Nat

VARIABLES
    content,            \* m_queue of the two queues
    cell,               \* m_obj of the state
    owner,              \* who holds the mutex of an object, a set of at most one
    waiting,            \* threads that sleep on a condition variable
    tpc,                \* where a thread is
    call,               \* its call: the object and the method, the value a wait()
                        \* is for, and whether its time is over
    holds               \* the buffers a thread has taken out of the queues

queueVars == <<content, cell, owner, waiting, tpc, call, holds>>

Queues == {"empty", "filled"}
Objects == Queues \cup {"state"}
QueueMethods == {"enqueue", "dequeue", "dequeue_for", "dequeue_blocking"}
StateMethods == {"access", "wait", "wait_for"}
Timed == {"dequeue_for", "wait_for"}
QueuePlaces == {"idle", "lock", "run", "sleep", "access", "notify"}

Buffers == 1 .. BufferCount
m_bufferStorage == [i \in 1 .. BufferCount |-> i]

NoCall == [object |-> "state", kind |-> "access", target |-> {}, timedOut |-> FALSE]

\* All buffers start in the queue of empty ones.
QueuesInit ==
    /\ content = [q \in Queues |-> IF q = "empty" THEN m_bufferStorage ELSE <<>>]
    /\ cell = 0            \* T{}
    /\ owner = [o \in Objects |-> {}] /\ waiting = [o \in Objects |-> {}]
    /\ tpc = [t \in Callers |-> "idle"]
    /\ call = [t \in Callers |-> NoCall]
    /\ holds = [t \in Callers |-> {}]

\* A call starts when its thread gets the lock.  A wait is for one value,
\* anything else for none.
Call(t, o, k, v) ==
    /\ tpc[t] = "idle" /\ owner[o] = {}
    /\ IF o \in Queues THEN k \in QueueMethods ELSE k \in StateMethods
    /\ v = {} <=> k \notin {"wait", "wait_for"}
    /\ k = "enqueue" => holds[t] # {}
    /\ call' = [call EXCEPT ![t] = [object |-> o, kind |-> k, target |-> v, timedOut |-> FALSE]]
    /\ owner' = [owner EXCEPT ![o] = {t}]
    /\ tpc' = [tpc EXCEPT ![t] = "run"]
    /\ UNCHANGED <<content, cell, waiting, holds>>

\* A thread that was woken takes the lock again.
Relock(t) ==
    /\ tpc[t] = "lock" /\ owner[call[t].object] = {}
    /\ owner' = [owner EXCEPT ![call[t].object] = {t}]
    /\ tpc' = [tpc EXCEPT ![t] = "run"]
    /\ UNCHANGED <<content, cell, waiting, call, holds>>

Unlock(o) == owner' = [owner EXCEPT ![o] = {}]
Returned(t) == tpc' = [tpc EXCEPT ![t] = "idle"] /\ call' = [call EXCEPT ![t] = NoCall]

\* Mutant: only the first thread that sleeps is woken.
Mutnotify_waiting(t) ==
    LET o == call[t].object
    IN  \E woken \in SUBSET waiting[o] :
          /\ \A u, v \in woken : u = v
          /\ waiting' = [waiting EXCEPT ![o] = @ \ woken]
          /\ tpc' = [u \in Callers |-> IF u \in woken THEN "lock"
                                       ELSE IF u = t THEN "idle" ELSE tpc[u]]
          /\ tpc[t] = "notify"
          /\ call' = [call EXCEPT ![t] = NoCall]
          /\ UNCHANGED <<content, cell, owner, holds>>

\* After the unlock: all that sleep on the object are woken.
notify_waiting(t) ==
    /\ tpc[t] = "notify"
    /\ waiting' = [waiting EXCEPT ![call[t].object] = {}]
    /\ tpc' = [u \in Callers |-> IF u \in waiting[call[t].object] THEN "lock"
                                 ELSE IF u = t THEN "idle" ELSE tpc[u]]
    /\ call' = [call EXCEPT ![t] = NoCall]
    /\ UNCHANGED <<content, cell, owner, holds>>

enqueue(t, b) ==
    /\ tpc[t] = "run" /\ call[t].kind = "enqueue" /\ b \in holds[t]
    /\ content' = [content EXCEPT ![call[t].object] = Append(@, b)]
    /\ holds' = [holds EXCEPT ![t] = @ \ {b}]
    /\ Unlock(call[t].object)
    /\ tpc' = [tpc EXCEPT ![t] = "notify"]
    /\ UNCHANGED <<cell, waiting, call>>

Dequeues(t) == tpc[t] = "run" /\ call[t].kind \in {"dequeue", "dequeue_for", "dequeue_blocking"}

\* Mutant: the front element is copied and stays.
Mutdequeue(t) ==
    /\ Dequeues(t) /\ content[call[t].object] # <<>>
    /\ holds' = [holds EXCEPT ![t] = @ \cup {Head(content[call[t].object])}]
    /\ Unlock(call[t].object)
    /\ Returned(t)
    /\ UNCHANGED <<content, cell, waiting>>

\* The front element is taken.
dequeue(t) ==
    /\ Dequeues(t) /\ content[call[t].object] # <<>>
    /\ content' = [content EXCEPT ![call[t].object] = Tail(@)]
    /\ holds' = [holds EXCEPT ![t] = @ \cup {Head(content[call[t].object])}]
    /\ Unlock(call[t].object)
    /\ Returned(t)
    /\ UNCHANGED <<cell, waiting>>

\* defaultValue is returned.
dequeueDefault(t) ==
    /\ Dequeues(t) /\ content[call[t].object] = <<>>
    /\ (call[t].kind = "dequeue" \/ call[t].timedOut)
    /\ Unlock(call[t].object)
    /\ Returned(t)
    /\ UNCHANGED <<content, cell, waiting, holds>>

\* The lock is given up and the thread sleeps, in one step.
Sleep(t) ==
    /\ Unlock(call[t].object)
    /\ waiting' = [waiting EXCEPT ![call[t].object] = @ \cup {t}]
    /\ tpc' = [tpc EXCEPT ![t] = "sleep"]
    /\ UNCHANGED <<content, cell, call, holds>>

dequeueWait(t) ==
    /\ Dequeues(t) /\ content[call[t].object] = <<>>
    /\ call[t].kind # "dequeue" /\ ~call[t].timedOut
    /\ Sleep(t)

\* The time of a timed wait is over, or the thread wakes up for no reason.
WakeUp(t, over) ==
    /\ tpc[t] = "sleep" /\ (over => call[t].kind \in Timed)
    /\ waiting' = [waiting EXCEPT ![call[t].object] = @ \ {t}]
    /\ call' = [call EXCEPT ![t].timedOut = over]
    /\ tpc' = [tpc EXCEPT ![t] = "lock"]
    /\ UNCHANGED <<content, cell, owner, holds>>

\* access(): the state is read or changed under the lock.
access(t) ==
    /\ tpc[t] = "run" /\ call[t].kind = "access"
    /\ cell' \in Values
    /\ tpc' = [tpc EXCEPT ![t] = "access"]
    /\ UNCHANGED <<content, owner, waiting, call, holds>>

Waits(t) == tpc[t] = "run" /\ call[t].kind \in {"wait", "wait_for"}

\* Mutant: the predicate is not looked at again after a wake up.
MutwaitReturns(t) ==
    /\ Waits(t)
    /\ tpc' = [tpc EXCEPT ![t] = "access"]
    /\ UNCHANGED <<content, cell, owner, waiting, call, holds>>

\* wait() and wait_for() return an access that holds the lock.
waitReturns(t) ==
    /\ Waits(t) /\ (call[t].target = {cell} \/ call[t].timedOut)
    /\ tpc' = [tpc EXCEPT ![t] = "access"]
    /\ UNCHANGED <<content, cell, owner, waiting, call, holds>>

waitOn(t) == Waits(t) /\ call[t].target # {cell} /\ ~call[t].timedOut /\ Sleep(t)

\* ~WaitableAccess()
release(t) ==
    /\ tpc[t] = "access"
    /\ Unlock(call[t].object)
    /\ tpc' = [tpc EXCEPT ![t] = "notify"]
    /\ UNCHANGED <<content, cell, waiting, call, holds>>

QueuesNext == \E t \in Callers :
    \/ \E o \in Objects, k \in QueueMethods \cup StateMethods, v \in {{}} \cup {{w} : w \in Values} : Call(t, o, k, v)
    \/ Relock(t) \/ notify_waiting(t)
    \/ \E b \in Buffers : enqueue(t, b)
    \/ dequeue(t) \/ dequeueDefault(t) \/ dequeueWait(t)
    \/ \E over \in BOOLEAN : WakeUp(t, over)
    \/ access(t) \/ waitReturns(t) \/ waitOn(t) \/ release(t)

QueuesSpec == QueuesInit /\ [][QueuesNext]_queueVars

-----------------------------------------------------------------------------
(* Properties                                                              *)

QueueTypes ==
    /\ content \in [Queues -> Seq(Buffers)] /\ cell \in Values
    /\ owner \in [Objects -> SUBSET Callers] /\ waiting \in [Objects -> SUBSET Callers]
    /\ tpc \in [Callers -> QueuePlaces]
    /\ call \in [Callers -> [object : Objects, kind : QueueMethods \cup StateMethods,
                             target : SUBSET Values, timedOut : BOOLEAN]]
    /\ holds \in [Callers -> SUBSET Buffers]

\* What a thread that sleeps is waiting for
Fulfilled(t) == IF call[t].object = "state" THEN call[t].target = {cell} ELSE content[call[t].object] # <<>>

\* No wake up is lost, though the notification comes after the unlock: a thread
\* only sleeps on what has come true while the thread that made it true still
\* holds the lock or is about to notify.
NoLostWakeup ==
    \A t \in Callers : tpc[t] = "sleep" /\ Fulfilled(t) =>
        \E u \in Callers : call[u].object = call[t].object /\ tpc[u] \in {"access", "notify"}

\* A wait() without a time limit returns with its predicate true, and that stays
\* so until its access is released; the lock is held by one thread.
WaitTruth ==
    \A t \in Callers :
        /\ tpc[t] = "access" /\ call[t].kind = "wait" => call[t].target = {cell}
        /\ tpc[t] \in {"run", "access"} => owner[call[t].object] = {t}

\* A buffer is in one queue, once, or with one thread.
OnePlace ==
    \A b \in Buffers :
        LET Spots(q) == {i \in 1 .. Len(content[q]) : content[q][i] = b}
        IN  \/ \E t \in Callers : /\ b \in holds[t]
                                  /\ \A u \in Callers \ {t} : b \notin holds[u]
                                  /\ \A q \in Queues : Spots(q) = {}
            \/ \E q \in Queues : /\ \E i \in Spots(q) : Spots(q) = {i}
                                 /\ \A p \in Queues \ {q} : Spots(p) = {}
                                 /\ \A u \in Callers : b \notin holds[u]
=============================================================================
