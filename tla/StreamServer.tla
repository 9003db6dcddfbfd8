---------------------------- MODULE StreamServer ----------------------------
(***************************************************************************)
(* The stream server (stream_server_asio.cc) that broadcasts readout data  *)
(* to its clients, as the listfile handle for streams uses it              *)
(* (mvlc_listfile_stream_server.cc).                                       *)
(*                                                                         *)
(* Three threads: the owner calls listen() and stop(), a sender calls      *)
(* sendToAllClients() and setPreamble(), and the io thread runs the        *)
(* handlers in the order in which they were queued.  Clients connect,      *)
(* read and drop their connection as they like.  TCP and unix domain       *)
(* sockets are served by the same code, written twice.                     *)
(***************************************************************************)
EXTENDS Integers, Sequences, Functions, FiniteSets

CONSTANTS Clients, MaxBroadcasts, MaxListens

NoClient == 0
ASSUME ClientsAssumption == IsFiniteSet(Clients) /\ NoClient \notin Clients

VARIABLES
    acceptors,          \* open acceptors, by number
    listens,            \* number of listen() calls
    accepting,
    armed,              \* acceptor with a pending async_accept, 0 if none
    handlers,           \* queue of the io_context
    ioThread,           \* "none" or "run"
    ioClient,           \* client whose preamble the io thread writes, or NoClient
    ioAcceptor,         \*   and the acceptor it came from
    sock,               \* per client: "away", "backlog", "taken", "open", "closed"
    link,               \* per client: it has not dropped the connection
    clients,            \* clients of the server
    preamble,           \* broadcast number of the preamble, 0 if none was set
    broadcasts,         \* what sendToAllClients() was called for, in order
    greeting,           \* per client: the preamble written on accept
    read,               \* per client: the broadcasts it got, by number
    spc,                \* sender: "idle", "check", "start", "wait"
    writing,            \* clients with a pending async_write
    pendingWrites, failedClients,       \* SendState
    opc,                \* owner: "idle", "acceptors", "clients", "join"
    misuse              \* an acceptor was used after it was freed

streamVars == <<acceptors, listens, accepting, armed, handlers, ioThread, ioClient,
                ioAcceptor, sock, link, clients, preamble, broadcasts, greeting,
                read, spc, writing, pendingWrites, failedClients, opc, misuse>>

Handler(kind, c, a, ok) == [kind |-> kind, client |-> c, acceptor |-> a, ok |-> ok]

Init ==
    /\ acceptors = {} /\ listens = 0 /\ accepting = TRUE /\ armed = 0
    /\ handlers = <<>> /\ ioThread = "none" /\ ioClient = NoClient /\ ioAcceptor = 0
    /\ sock = [c \in Clients |-> "away"] /\ link = [c \in Clients |-> TRUE]
    /\ clients = {} /\ preamble = 0 /\ broadcasts = <<>>
    /\ greeting = [c \in Clients |-> 0] /\ read = [c \in Clients |-> <<>>]
    /\ spc = "idle" /\ writing = {} /\ pendingWrites = 0 /\ failedClients = {}
    /\ opc = "idle" /\ misuse = FALSE

-----------------------------------------------------------------------------
(* The io context and the accept loop                                      *)

ensure_asio_running == ioThread' = "run"

\* Mutant: re-arms the accept without looking at accepting.
MutstartAccept(a) ==
    /\ misuse' = (misuse \/ a \notin acceptors')
    /\ armed' = a

\* startAcceptTcp(), startAcceptIpc(): an acceptor that stop() has freed is not
\* touched because accepting has been cleared.
startAccept(a) ==
    IF accepting' THEN /\ misuse' = (misuse \/ a \notin acceptors')
                       /\ armed' = a
    ELSE UNCHANGED <<misuse, armed>>

\* A pending accept completes.
AcceptReady(c) ==
    /\ armed # 0 /\ sock[c] = "backlog"
    /\ handlers' = Append(handlers, Handler("accept", c, armed, TRUE))
    /\ sock' = [sock EXCEPT ![c] = "taken"]
    /\ armed' = 0
    /\ UNCHANGED <<acceptors, listens, accepting, ioThread, ioClient, ioAcceptor, link,
                   clients, preamble, broadcasts, greeting, read, spc, writing,
                   pendingWrites, failedClients, opc, misuse>>

Idle == ioThread = "run" /\ ioClient = NoClient /\ handlers # <<>>
IsNext(kind) == Idle /\ Head(handlers).kind = kind

\* handleAccept...(), up to the copy of the preamble, which is then written with
\* a blocking call before the client enters the list.
handleAccept ==
    /\ IsNext("accept")
    /\ handlers' = Tail(handlers)
    /\ LET h == Head(handlers) IN
       IF h.ok THEN /\ ioClient' = h.client
                    /\ ioAcceptor' = h.acceptor
                    /\ greeting' = [greeting EXCEPT ![h.client] = preamble]
               ELSE UNCHANGED <<ioClient, ioAcceptor, greeting>>
    /\ UNCHANGED <<acceptors, listens, accepting, armed, ioThread, sock, link, clients,
                   preamble, broadcasts, read, spc, writing, pendingWrites,
                   failedClients, opc, misuse>>

\* ... the rest: the client has the preamble and enters the list, or failed.
HandleAcceptEnd ==
    /\ ioClient # NoClient
    /\ IF link[ioClient] \/ greeting[ioClient] = 0
       THEN /\ clients' = clients \cup {ioClient}
            /\ sock' = [sock EXCEPT ![ioClient] = "open"]
       ELSE /\ sock' = [sock EXCEPT ![ioClient] = "closed"]
            /\ UNCHANGED clients
    /\ UNCHANGED <<accepting, acceptors>>
    /\ startAccept(ioAcceptor)
    /\ ioClient' = NoClient /\ ioAcceptor' = 0
    /\ UNCHANGED <<listens, handlers, ioThread, link, preamble, broadcasts, greeting,
                   read, spc, writing, pendingWrites, failedClients, opc>>

-----------------------------------------------------------------------------
(* The sender                                                              *)

\* sendToAllClients(), called for data or by setPreamble() for a new preamble.
Send(kind) ==
    /\ Len(broadcasts) < MaxBroadcasts
    /\ broadcasts' = Append(broadcasts, kind)
    /\ IF kind = "preamble" THEN preamble' = Len(broadcasts) + 1 ELSE UNCHANGED preamble

setPreamble ==
    /\ spc = "idle"
    /\ Send("preamble")
    /\ spc' = "check"
    /\ UNCHANGED <<acceptors, listens, accepting, armed, handlers, ioThread, ioClient,
                   ioAcceptor, sock, link, clients, greeting, read, writing,
                   pendingWrites, failedClients, opc, misuse>>

write ==
    /\ spc = "idle"
    /\ Send("data")
    /\ spc' = "check"
    /\ UNCHANGED <<acceptors, listens, accepting, armed, handlers, ioThread, ioClient,
                   ioAcceptor, sock, link, clients, greeting, read, writing,
                   pendingWrites, failedClients, opc, misuse>>

\* sendToAllClients(): the check of accepting, then the writes to the clients in
\* the list at that moment.
SendCheck ==
    /\ spc = "check"
    /\ spc' = IF accepting THEN "start" ELSE "idle"
    /\ UNCHANGED <<acceptors, listens, accepting, armed, handlers, ioThread, ioClient,
                   ioAcceptor, sock, link, clients, preamble, broadcasts, greeting, read,
                   writing, pendingWrites, failedClients, opc, misuse>>

SendStart ==
    /\ spc = "start"
    /\ writing' = clients
    /\ pendingWrites' = Cardinality(clients)
    /\ failedClients' = {}
    /\ spc' = IF clients = {} THEN "idle" ELSE "wait"
    /\ UNCHANGED <<acceptors, listens, accepting, armed, handlers, ioThread, ioClient,
                   ioAcceptor, sock, link, clients, preamble, broadcasts, greeting, read,
                   opc, misuse>>

\* The socket takes all data of a write, or reports that the client is gone.
WriteDone(c) ==
    /\ c \in writing
    /\ writing' = writing \ {c}
    /\ handlers' = Append(handlers, Handler("written", c, 0, link[c]))
    /\ read' = IF link[c] THEN [read EXCEPT ![c] = Append(@, Len(broadcasts))] ELSE read
    /\ UNCHANGED <<acceptors, listens, accepting, armed, ioThread, ioClient, ioAcceptor,
                   sock, link, clients, preamble, broadcasts, greeting, spc,
                   pendingWrites, failedClients, opc, misuse>>

\* Mutant: a failed write leaves the count of pending writes alone.
MuthandleWritten ==
    /\ IsNext("written")
    /\ handlers' = Tail(handlers)
    /\ pendingWrites' = IF Head(handlers).ok THEN pendingWrites - 1 ELSE pendingWrites
    /\ failedClients' = IF Head(handlers).ok THEN failedClients
                        ELSE failedClients \cup {Head(handlers).client}
    /\ UNCHANGED <<acceptors, listens, accepting, armed, ioThread, ioClient, ioAcceptor,
                   sock, link, clients, preamble, broadcasts, greeting, read, spc,
                   writing, opc, misuse>>

\* The completion handler of a write, in the io thread.
handleWritten ==
    /\ IsNext("written")
    /\ handlers' = Tail(handlers)
    /\ pendingWrites' = pendingWrites - 1
    /\ failedClients' = IF Head(handlers).ok THEN failedClients
                        ELSE failedClients \cup {Head(handlers).client}
    /\ UNCHANGED <<acceptors, listens, accepting, armed, ioThread, ioClient, ioAcceptor,
                   sock, link, clients, preamble, broadcasts, greeting, read, spc,
                   writing, opc, misuse>>

\* Mutant: failed clients are forgotten.
MutSendEnd ==
    /\ spc = "wait" /\ pendingWrites = 0
    /\ spc' = "idle"
    /\ UNCHANGED <<acceptors, listens, accepting, armed, handlers, ioThread, ioClient,
                   ioAcceptor, sock, link, clients, preamble, broadcasts, greeting, read,
                   writing, pendingWrites, failedClients, opc, misuse>>

\* Mutant: returns while the last write is pending.
MutSendEarly ==
    /\ spc = "wait" /\ pendingWrites <= 1
    /\ clients' = clients \ failedClients
    /\ sock' = [c \in Clients |-> IF c \in failedClients THEN "closed" ELSE sock[c]]
    /\ spc' = "idle"
    /\ UNCHANGED <<acceptors, listens, accepting, armed, handlers, ioThread, ioClient,
                   ioAcceptor, link, preamble, broadcasts, greeting, read, writing,
                   pendingWrites, failedClients, opc, misuse>>

\* All writes are done: failed clients are closed and removed.
SendEnd ==
    /\ spc = "wait" /\ pendingWrites = 0
    /\ clients' = clients \ failedClients
    /\ sock' = [c \in Clients |-> IF c \in failedClients THEN "closed" ELSE sock[c]]
    /\ spc' = "idle"
    /\ UNCHANGED <<acceptors, listens, accepting, armed, handlers, ioThread, ioClient,
                   ioAcceptor, link, preamble, broadcasts, greeting, read, writing,
                   pendingWrites, failedClients, opc, misuse>>

-----------------------------------------------------------------------------
(* The owner                                                               *)

\* listen(): listenTcp() and listenIpc()
listen ==
    /\ opc = "idle" /\ acceptors = {} /\ listens < MaxListens
    /\ listens' = listens + 1
    /\ acceptors' = {listens + 1}
    /\ accepting' = TRUE
    /\ startAccept(listens + 1)
    /\ ensure_asio_running
    /\ UNCHANGED <<handlers, ioClient, ioAcceptor, sock, link, clients, preamble,
                   broadcasts, greeting, read, spc, writing, pendingWrites,
                   failedClients, opc>>

\* stop(): the closing of the acceptors is posted and awaited, ...
stop ==
    /\ opc = "idle" /\ acceptors # {}
    /\ accepting' = FALSE
    /\ ensure_asio_running
    /\ handlers' = Append(handlers, Handler("closeAcceptors", NoClient, 0, TRUE))
    /\ opc' = "acceptors"
    /\ UNCHANGED <<acceptors, listens, armed, ioClient, ioAcceptor, sock, link, clients,
                   preamble, broadcasts, greeting, read, spc, writing, pendingWrites,
                   failedClients, misuse>>

\* A pending accept is aborted: its handler is queued.
AbortAccept(queue) ==
    IF armed # 0 THEN Append(queue, Handler("accept", NoClient, armed, FALSE)) ELSE queue

\* Mutant: the closing of the clients overtakes the queued accepts.
MutCloseAcceptors ==
    /\ IsNext("closeAcceptors")
    /\ handlers' = <<Handler("closeClients", NoClient, 0, TRUE)>>
                       \o AbortAccept(Tail(handlers))
    /\ acceptors' = {} /\ armed' = 0
    /\ sock' = [c \in Clients |-> IF sock[c] = "backlog" THEN "closed" ELSE sock[c]]
    /\ opc' = "clients"
    /\ UNCHANGED <<listens, accepting, ioThread, ioClient, ioAcceptor, link, clients,
                   preamble, broadcasts, greeting, read, spc, writing, pendingWrites,
                   failedClients, misuse>>

\* Mutant: without clients nothing is posted, and stop() waits for it.
MutCloseNobody ==
    /\ IsNext("closeAcceptors")
    /\ handlers' = AbortAccept(Tail(handlers))
         \o (IF clients = {} THEN <<>> ELSE <<Handler("closeClients", NoClient, 0, TRUE)>>)
    /\ acceptors' = {} /\ armed' = 0
    /\ sock' = [c \in Clients |-> IF sock[c] = "backlog" THEN "closed" ELSE sock[c]]
    /\ opc' = "clients"
    /\ UNCHANGED <<listens, accepting, ioThread, ioClient, ioAcceptor, link, clients,
                   preamble, broadcasts, greeting, read, spc, writing, pendingWrites,
                   failedClients, misuse>>

\* ... run in the io thread: a pending accept is aborted, clients that nobody
\* accepted are reset, ...
CloseAcceptors ==
    /\ IsNext("closeAcceptors")
    /\ handlers' = Append(AbortAccept(Tail(handlers)),
                          Handler("closeClients", NoClient, 0, TRUE))
    /\ acceptors' = {} /\ armed' = 0
    /\ sock' = [c \in Clients |-> IF sock[c] = "backlog" THEN "closed" ELSE sock[c]]
    /\ opc' = "clients"
    /\ UNCHANGED <<listens, accepting, ioThread, ioClient, ioAcceptor, link, clients,
                   preamble, broadcasts, greeting, read, spc, writing, pendingWrites,
                   failedClients, misuse>>

\* ... then that of the clients, whose pending writes are aborted in any order, ...
CloseClients ==
    /\ IsNext("closeClients")
    /\ \E order \in Bijection(1 .. Cardinality(writing \cap clients), writing \cap clients) :
         handlers' = Tail(handlers) \o
             [i \in DOMAIN order |-> Handler("written", order[i], 0, FALSE)]
    /\ writing' = writing \ clients
    /\ sock' = [c \in Clients |-> IF c \in clients THEN "closed" ELSE sock[c]]
    /\ clients' = {}
    /\ opc' = "join"
    /\ UNCHANGED <<acceptors, listens, accepting, armed, ioThread, ioClient, ioAcceptor,
                   link, preamble, broadcasts, greeting, read, spc, pendingWrites,
                   failedClients, misuse>>

\* ... and io_context.stop() and the join: handlers still queued stay queued.
StopJoin ==
    /\ opc = "join" /\ ioClient = NoClient
    /\ ioThread' = "none"
    /\ opc' = "idle"
    /\ UNCHANGED <<acceptors, listens, accepting, armed, handlers, ioClient, ioAcceptor,
                   sock, link, clients, preamble, broadcasts, greeting, read, spc,
                   writing, pendingWrites, failedClients, misuse>>

-----------------------------------------------------------------------------
(* The clients                                                             *)

Connect(c) ==
    /\ sock[c] = "away" /\ acceptors # {}
    /\ sock' = [sock EXCEPT ![c] = "backlog"]
    /\ UNCHANGED <<acceptors, listens, accepting, armed, handlers, ioThread, ioClient,
                   ioAcceptor, link, clients, preamble, broadcasts, greeting, read, spc,
                   writing, pendingWrites, failedClients, opc, misuse>>

Drop(c) ==
    /\ sock[c] \in {"backlog", "taken", "open"} /\ link[c]
    /\ link' = [link EXCEPT ![c] = FALSE]
    /\ UNCHANGED <<acceptors, listens, accepting, armed, handlers, ioThread, ioClient,
                   ioAcceptor, sock, clients, preamble, broadcasts, greeting, read, spc,
                   writing, pendingWrites, failedClients, opc, misuse>>

IoThread == \/ handleAccept \/ HandleAcceptEnd \/ handleWritten
            \/ CloseAcceptors \/ CloseClients
Sender == SendCheck \/ SendStart \/ SendEnd

Next ==
    \/ listen \/ stop \/ StopJoin \/ setPreamble \/ write \/ Sender \/ IoThread
    \/ \E c \in Clients : AcceptReady(c) \/ WriteDone(c) \/ Connect(c) \/ Drop(c)

StreamSpec == Init /\ [][Next]_streamVars

-----------------------------------------------------------------------------
(* Properties                                                              *)

\* The broadcasts a client gets are consecutive ones, in order and once: nobody
\* misses one between its first broadcast and the loss of its connection,
\* whatever connects, drops and stops meanwhile.
NoGapInStream ==
    \A c \in Clients : \A i \in 1 .. Len(read[c]) - 1 : read[c][i + 1] = read[c][i] + 1

\* While nothing is sent, a client in the list has got the last broadcast since
\* its first one: a broadcast that returned has reached everybody it was for
\* (a stopping server sends nothing).
BroadcastReached ==
    spc = "idle" /\ accepting =>
        \A c \in clients : read[c] = <<>> \/ read[c][Len(read[c])] = Len(broadcasts)

\* The accept loop never uses an acceptor that stop() has freed.
AcceptorAlive == ~ misuse

\* When stop() has returned nobody is connected: a client whose accept was still
\* queued when the acceptors closed is closed with the others.
StoppedMeansClosed ==
    opc = "idle" /\ listens > 0 /\ acceptors = {} =>
        /\ clients = {}
        /\ \A c \in Clients : sock[c] \in {"away", "closed"}

\* Nobody waits for a promise that is not kept: while stop() waits, the handler
\* it waits for is queued and the io thread runs.
StopAnswered ==
    opc \in {"acceptors", "clients"} =>
        /\ ioThread = "run"
        /\ \E i \in DOMAIN handlers : handlers[i].kind =
             IF opc = "acceptors" THEN "closeAcceptors" ELSE "closeClients"

\* Where the handlers of completed writes are queued, and for whom.
WrittenAt == {i \in DOMAIN handlers : handlers[i].kind = "written"}
Written == {handlers[i].client : i \in WrittenAt}

\* Every write that sendToAllClients() waits for is either under way or its
\* handler is queued, and that once, also when clients drop and stop() closes
\* them: the count of pending writes gets to zero once the clients have read or
\* gone.
WritesAccounted ==
    spc = "wait" =>
        /\ writing \cap Written = {}
        /\ \A i, j \in WrittenAt : handlers[i].client = handlers[j].client => i = j
        /\ pendingWrites = Cardinality(writing \cup Written)

\* A client of the stream server that is connected misses nothing, its writes are all
\* accounted for, no freed acceptor is used, and stop() closes and answers.  (Which
\* greeting it got is not part of this.)
StreamsServed ==
    /\ NoGapInStream /\ BroadcastReached /\ WritesAccounted
    /\ AcceptorAlive /\ StoppedMeansClosed /\ StopAnswered
=============================================================================
