----------------------------- MODULE FairLock -----------------------------
(***************************************************************************)
(* What the two locks of an MVLC promise to the threads that use it: a     *)
(* lock has at most one owner, and it goes to the threads in the order in  *)
(* which they asked for it (mvlc_threading.h, util/ticketmutex.h).         *)
(***************************************************************************)
EXTENDS Naturals, Sequences

CONSTANTS Threads, Mutexes

VARIABLES
    line,       \* the threads that asked for a lock, its owner first
    owners      \* the threads that lock() has let through

lockVars == <<line, owners>>

Init ==
    /\ line = [m \in Mutexes |-> <<>>]
    /\ owners = [m \in Mutexes |-> {}]

\* lock() on a lock that others hold or wait for.
Queue(t, m) ==
    /\ line[m] # <<>>
    /\ \A i \in 1 .. Len(line[m]) : line[m][i] # t
    /\ line' = [line EXCEPT ![m] = Append(@, t)]
    /\ UNCHANGED owners

\* lock() or try_lock() on a free lock.
Take(t, m) ==
    /\ line[m] = <<>>
    /\ owners[m] = {}
    /\ line' = [line EXCEPT ![m] = <<t>>]
    /\ owners' = [owners EXCEPT ![m] = {t}]

\* The lock is handed to the first in line.
Enter(t, m) ==
    /\ line[m] # <<>>
    /\ Head(line[m]) = t
    /\ owners[m] = {}
    /\ owners' = [owners EXCEPT ![m] = {t}]
    /\ UNCHANGED line

\* unlock()
Leave(t, m) ==
    /\ line[m] # <<>>
    /\ owners[m] = {t}
    /\ owners' = [owners EXCEPT ![m] = {}]
    /\ line' = [line EXCEPT ![m] = Tail(@)]

Next == \E t \in Threads, m \in Mutexes :
    Queue(t, m) \/ Take(t, m) \/ Enter(t, m) \/ Leave(t, m)

Spec == Init /\ [][Next]_lockVars

FairSpec ==
    /\ Spec
    /\ \A t \in Threads, m \in Mutexes :
         WF_lockVars(Enter(t, m)) /\ WF_lockVars(Leave(t, m))
=============================================================================
