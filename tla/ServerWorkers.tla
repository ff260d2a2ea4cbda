--------------------------- MODULE ServerWorkers ---------------------------
(***************************************************************************)
(* The life of the server, of its worker threads and of the connections    *)
(* they own (app/src/multithread_tcp_server.cpp, server_worker.cpp and the *)
(* constructor, destructor and close() of client_connection.cpp).          *)
(*                                                                         *)
(* Who runs what.  ServerWorker and ClientConnection objects are created   *)
(* in the main thread, so their slots, quit() included, run there, one at  *)
(* a time.  A worker thread runs only ServerWorker::run(): it creates the  *)
(* database connection of its worker, opens it, and then sits in an event  *)
(* loop with no objects of its own until quit() lets it go.  The main      *)
(* thread walks through the workers one by one in start(), in stop() and   *)
(* in the destructor while the worker threads go on.                       *)
(*                                                                         *)
(* A use of memory that is not a live database connection is a fault.      *)
(* Nothing can be said of a program after one: the model stops there.      *)
(***************************************************************************)
EXTENDS Integers, FiniteSets

CONSTANTS WorkersNumber,   \* workerThreadsNumber
          Connections,     \* every client that will ever connect
          MaxStarts,       \* bound: calls of start()
          MaxStops,        \* bound: calls of stop()
          Orderly,         \* does the caller of start() and stop() wait until
                           \* every thread has settled after the last call?
          Patient,         \* do clients ask only while their worker serves?
          Destruction      \* may the server object be destroyed?

ASSUME WorkersAssumption == WorkersNumber \in Nat \ {0}
ASSUME ConnectionsAssumption == IsFiniteSet(Connections)
ASSUME BoundsAssumption == MaxStarts \in Nat /\ MaxStops \in Nat

Workers == 1 .. WorkersNumber

VARIABLES listening,    \* does the QTcpServer listen?
          announced,    \* the last of the signals started() and stopped()
          call,         \* what the main thread is executing
          next,         \* the worker it has come to
          thread,       \* where each worker thread is
          exited,       \* QThread's own flag: quit() was called
          db,           \* what databaseConnection of each worker points to
          counter,      \* handlingConnectionsCounter of each worker
          conn,         \* life of each ClientConnection
          home,         \* the worker that owns it
          closeQueued,  \* connections with a close() event in the main queue
          reply,        \* how the last query of each client was answered
          starts, stops,
          fault

serverVars == <<listening, announced, starts, stops>>
mainVars   == <<call, next>>
workerVars == <<thread, exited, db>>
connVars   == <<counter, conn, home, closeQueued, reply>>
vars == <<serverVars, mainVars, workerVars, connVars, fault>>

Alive(c) == conn[c] \in {"open", "closing", "dying"}
ConnectionsOf(w) == {c \in Connections : Alive(c) /\ home[c] = w}

(* A worker serves when its thread is in its loop and was not told to quit. *)
Serving(w) == thread[w] = "loop" /\ ~ exited[w]

(* The main thread is in its event loop and takes the next event.          *)
MainIsFree == call = "none"

-----------------------------------------------------------------------------
(* initWorkers(): no constructor sets databaseConnection.                  *)
Init ==
    /\ listening = FALSE /\ announced = "nothing"
    /\ call = "none" /\ next = 1
    /\ thread = [w \in Workers |-> "idle"]
    /\ exited = [w \in Workers |-> FALSE]
    /\ db = [w \in Workers |-> "indeterminate"]
    /\ counter = [w \in Workers |-> 0]
    /\ conn = [c \in Connections |-> "absent"]
    /\ home = [c \in Connections |-> 1]
    /\ closeQueued = {}
    /\ reply = [c \in Connections |-> "none"]
    /\ starts = 0 /\ stops = 0
    /\ fault = "none"

(* start(): the result of listen() is not looked at.                       *)
Start ==
    /\ MainIsFree
    /\ starts < MaxStarts
    /\ Orderly => \A w \in Workers : thread[w] = "idle"
    /\ listening' \in {listening, TRUE}
    /\ starts' = starts + 1
    /\ call' = "start" /\ next' = 1
    /\ UNCHANGED <<announced, stops, workerVars, connVars, fault>>

(* QThread::start() waits for a thread that is finishing and returns at    *)
(* once, without a word, when the thread is running.                       *)
StartWorker_AllButLast ==
    /\ call = "start" /\ next \in Workers
    /\ thread[next] # "finishing"
    /\ \/ /\ thread[next] = "idle" /\ next < WorkersNumber
          /\ thread' = [thread EXCEPT ![next] = "configuring"]
          /\ exited' = [exited EXCEPT ![next] = FALSE]
       \/ /\ thread[next] # "idle" \/ next = WorkersNumber
          /\ UNCHANGED <<thread, exited>>
    /\ next' = next + 1
    /\ UNCHANGED <<serverVars, call, db, connVars, fault>>
StartWorker ==
    /\ call = "start" /\ next \in Workers
    /\ thread[next] # "finishing"
    /\ \/ /\ thread[next] = "idle"
          /\ thread' = [thread EXCEPT ![next] = "configuring"]
          /\ exited' = [exited EXCEPT ![next] = FALSE]
       \/ thread[next] # "idle" /\ UNCHANGED <<thread, exited>>
    /\ next' = next + 1
    /\ UNCHANGED <<serverVars, call, db, connVars, fault>>

Started ==
    /\ call = "start" /\ next \notin Workers
    /\ announced' = "started"
    /\ call' = "none" /\ next' = 1
    /\ UNCHANGED <<listening, starts, stops, workerVars, connVars, fault>>

(* stop(): close(), then stopped(), whose slots are called directly.       *)
Stop ==
    /\ MainIsFree
    /\ stops < MaxStops
    /\ Orderly => \A w \in Workers : Serving(w)
    /\ listening' = FALSE
    /\ announced' = "stopped"
    /\ stops' = stops + 1
    /\ call' = "stop" /\ next' = 1
    /\ UNCHANGED <<starts, workerVars, connVars, fault>>

(* delete databaseConnection.  The pointer keeps its value.  A pointer     *)
(* never set may happen to be null, which delete accepts.                  *)
DeleteDatabase(w) ==
    \/ /\ db[w] \in {"open", "failed"}
       /\ db' = [db EXCEPT ![w] = "freed"]
       /\ UNCHANGED fault
    \/ /\ db[w] = "opening"
       /\ db' = [db EXCEPT ![w] = "freed"]
       /\ fault' = "deletedWhileOpening"
    \/ db[w] = "freed" /\ fault' = "doubleDelete" /\ UNCHANGED db
    \/ db[w] = "indeterminate" /\ fault' \in {"none", "wildPointer"} /\ UNCHANGED db

(* ServerWorker::quit() of one worker after the other, for the signal      *)
(* stopped() or in removeWorkers().                                        *)
QuitWorker_LeavesThread ==
    /\ call \in {"stop", "remove"} /\ next \in Workers
    /\ DeleteDatabase(next)
    /\ next' = next + 1
    /\ UNCHANGED <<serverVars, call, thread, exited, connVars>>
QuitWorker ==
    /\ call \in {"stop", "remove"} /\ next \in Workers
    /\ DeleteDatabase(next)
    /\ exited' = [exited EXCEPT ![next] = TRUE]
    /\ next' = next + 1
    /\ UNCHANGED <<serverVars, call, thread, connVars>>

Stopped ==
    /\ call = "stop" /\ next \notin Workers
    /\ call' = "none" /\ next' = 1
    /\ UNCHANGED <<serverVars, workerVars, connVars, fault>>

(* ~MultithreadTcpServer: removeWorkers(), then the workers are deleted as *)
(* children.  Deleting a QThread waits for one that is finishing and       *)
(* aborts the program on one that is running.                              *)
Destroy ==
    /\ Destruction
    /\ MainIsFree
    /\ call' = "remove" /\ next' = 1
    /\ UNCHANGED <<serverVars, workerVars, connVars, fault>>

Removed ==
    /\ call = "remove" /\ next \notin Workers
    /\ call' = "delete" /\ next' = 1
    /\ listening' = FALSE
    /\ UNCHANGED <<announced, starts, stops, workerVars, connVars, fault>>

DeleteWorker ==
    /\ call = "delete" /\ next \in Workers
    /\ thread[next] # "finishing"
    /\ \/ /\ DeleteDatabase(next)
          /\ thread[next] = "idle" \/ fault' # "none"
       \/ /\ thread[next] # "idle"
          /\ db[next] \notin {"opening", "freed"}
          /\ fault' = "threadDestroyed" /\ UNCHANGED db
    /\ next' = next + 1
    /\ UNCHANGED <<serverVars, call, thread, exited, connVars>>

-----------------------------------------------------------------------------
(* ServerWorker::run() in the worker's own thread.                         *)

Configure(w) ==
    /\ thread[w] = "configuring"
    /\ thread' = [thread EXCEPT ![w] = "opening"]
    /\ db' = [db EXCEPT ![w] = "opening"]
    /\ UNCHANGED <<serverVars, mainVars, exited, connVars, fault>>

(* open() may fail; that is only logged.                                   *)
Open(w) ==
    /\ thread[w] = "opening"
    /\ thread' = [thread EXCEPT ![w] = "opened"]
    /\ db' \in {[db EXCEPT ![w] = result] : result \in {"open", "failed"}}
    /\ UNCHANGED <<serverVars, mainVars, exited, connVars, fault>>

(* exec() returns at once when quit() came first.                          *)
Exec(w) ==
    /\ thread[w] = "opened"
    /\ \/ /\ exited[w]
          /\ thread' = [thread EXCEPT ![w] = "leaving"]
          /\ exited' = [exited EXCEPT ![w] = FALSE]
       \/ /\ ~ exited[w]
          /\ thread' = [thread EXCEPT ![w] = "loop"]
          /\ UNCHANGED exited
    /\ UNCHANGED <<serverVars, mainVars, db, connVars, fault>>

LeaveLoop(w) ==
    /\ thread[w] = "loop" /\ exited[w]
    /\ thread' = [thread EXCEPT ![w] = "leaving"]
    /\ exited' = [exited EXCEPT ![w] = FALSE]
    /\ UNCHANGED <<serverVars, mainVars, db, connVars, fault>>

(* finished() is emitted in the worker thread: close() of each connection  *)
(* is queued for the main thread.                                          *)
Finishing_KeepsClients(w) ==
    /\ thread[w] = "leaving"
    /\ thread' = [thread EXCEPT ![w] = "finishing"]
    /\ UNCHANGED <<serverVars, mainVars, exited, db, connVars, fault>>
Finishing(w) ==
    /\ thread[w] = "leaving"
    /\ thread' = [thread EXCEPT ![w] = "finishing"]
    /\ closeQueued' = closeQueued \cup ConnectionsOf(w)
    /\ UNCHANGED <<serverVars, mainVars, exited, db,
                   counter, conn, home, reply, fault>>

Finished(w) ==
    /\ thread[w] = "finishing"
    /\ thread' = [thread EXCEPT ![w] = "idle"]
    /\ UNCHANGED <<serverVars, mainVars, exited, db, connVars, fault>>

-----------------------------------------------------------------------------
(* Events of the main thread.                                              *)

(* incomingConnection(): the first worker with the fewest connections.     *)
LeastLoaded(w) ==
    \A v \in Workers : /\ counter[w] <= counter[v]
                       /\ v < w => counter[w] < counter[v]

MostLoaded(w) == \A v \in Workers : counter[w] >= counter[v]

Accept(c, w) ==
    /\ MainIsFree /\ listening
    /\ conn[c] = "absent"
    /\ home' = [home EXCEPT ![c] = w]
    /\ counter' = [counter EXCEPT ![w] = @ + 1]
    /\ conn' = [conn EXCEPT ![c] = "open"]
    /\ UNCHANGED <<serverVars, mainVars, workerVars, closeQueued, reply, fault>>

IncomingConnection_MostLoaded(c) ==
    \E w \in Workers : MostLoaded(w) /\ Accept(c, w)
IncomingConnection(c) ==
    \E w \in Workers : LeastLoaded(w) /\ Accept(c, w)

(* A query of this client goes, in the main thread, to the database        *)
(* connection of the worker the client belongs to.                         *)
Query(c) ==
    /\ MainIsFree
    /\ conn[c] = "open"
    /\ Patient => Serving(home[c])
    /\ \/ /\ db[home[c]] = "open"
          /\ reply' = [reply EXCEPT ![c] = "served"] /\ UNCHANGED fault
       \/ /\ db[home[c]] = "failed"
          /\ reply' = [reply EXCEPT ![c] = "refused"] /\ UNCHANGED fault
       \/ db[home[c]] = "opening" /\ fault' = "usedWhileOpening" /\ UNCHANGED reply
       \/ db[home[c]] = "freed" /\ fault' = "usedAfterDelete" /\ UNCHANGED reply
       \/ db[home[c]] = "indeterminate" /\ fault' = "wildPointer" /\ UNCHANGED reply
    /\ UNCHANGED <<serverVars, mainVars, workerVars,
                   counter, conn, home, closeQueued>>

(* disconnected(): deleteLater().                                          *)
PeerLeaves(c) ==
    /\ MainIsFree
    /\ conn[c] = "open"
    /\ conn' = [conn EXCEPT ![c] = "dying"]
    /\ UNCHANGED <<serverVars, mainVars, workerVars,
                   counter, home, closeQueued, reply, fault>>

(* The queued close(): the socket starts to close, if it is still open.    *)
CloseEvent(c) ==
    /\ MainIsFree
    /\ c \in closeQueued
    /\ closeQueued' = closeQueued \ {c}
    /\ conn' = [conn EXCEPT ![c] = IF @ = "open" THEN "closing" ELSE @]
    /\ UNCHANGED <<serverVars, mainVars, workerVars, counter, home, reply, fault>>

SocketClosed(c) ==
    /\ MainIsFree
    /\ conn[c] = "closing"
    /\ conn' = [conn EXCEPT ![c] = "dying"]
    /\ UNCHANGED <<serverVars, mainVars, workerVars,
                   counter, home, closeQueued, reply, fault>>

(* ~ClientConnection: closed() decreases the counter of the worker; events *)
(* still queued for the object are dropped.                                *)
DeferredDelete_Twice(c) ==
    /\ MainIsFree
    /\ conn[c] = "dying"
    /\ conn' = [conn EXCEPT ![c] = "destroyed"]
    /\ counter' = [counter EXCEPT ![home[c]] = @ - (IF c \in closeQueued THEN 2 ELSE 1)]
    /\ closeQueued' = closeQueued \ {c}
    /\ UNCHANGED <<serverVars, mainVars, workerVars, home, reply, fault>>
DeferredDelete(c) ==
    /\ MainIsFree
    /\ conn[c] = "dying"
    /\ conn' = [conn EXCEPT ![c] = "destroyed"]
    /\ counter' = [counter EXCEPT ![home[c]] = @ - 1]
    /\ closeQueued' = closeQueued \ {c}
    /\ UNCHANGED <<serverVars, mainVars, workerVars, home, reply, fault>>

-----------------------------------------------------------------------------
Operator == Start \/ Stop \/ Destroy

Main == \/ StartWorker \/ Started \/ QuitWorker \/ Stopped
        \/ Removed \/ DeleteWorker

Run(w) == \/ Configure(w) \/ Open(w) \/ Exec(w) \/ LeaveLoop(w)
          \/ Finishing(w) \/ Finished(w)

Client(c) == IncomingConnection(c) \/ Query(c) \/ PeerLeaves(c)

Event(c) == CloseEvent(c) \/ SocketClosed(c) \/ DeferredDelete(c)

Next ==
    /\ fault = "none"
    /\ \/ Operator
       \/ Main
       \/ \E w \in Workers : Run(w)
       \/ \E c \in Connections : Client(c) \/ Event(c)

Spec == Init /\ [][Next]_vars

-----------------------------------------------------------------------------
TypeOK ==
    /\ listening \in BOOLEAN /\ announced \in {"nothing", "started", "stopped"}
    /\ call \in {"none", "start", "stop", "remove", "delete"}
    /\ next \in 1 .. WorkersNumber + 1
    /\ thread \in [Workers -> {"idle", "configuring", "opening", "opened",
                               "loop", "leaving", "finishing"}]
    /\ exited \in [Workers -> BOOLEAN]
    /\ db \in [Workers -> {"indeterminate", "opening", "open", "failed", "freed"}]
    /\ counter \in [Workers -> Nat]
    /\ conn \in [Connections -> {"absent", "open", "closing", "dying", "destroyed"}]
    /\ home \in [Connections -> Workers]
    /\ closeQueued \subseteq Connections
    /\ reply \in [Connections -> {"none", "served", "refused"}]
    /\ starts \in 0 .. MaxStarts /\ stops \in 0 .. MaxStops
    /\ fault \in {"none", "wildPointer", "deletedWhileOpening", "doubleDelete",
                  "usedWhileOpening", "usedAfterDelete", "threadDestroyed"}

(* However start() and stop() are called and however they overtake the     *)
(* worker threads, a thread that is in its loop and has not been told to   *)
(* quit has a database connection: every pass through run() makes one and  *)
(* only quit() deletes it (server_worker.cpp:22-33, 64-70).                *)
ServingWorkerHasDatabase ==
    \A w \in Workers : Serving(w) /\ fault = "none" => db[w] \in {"open", "failed"}

(* The counter the balancing goes by is the number of connections whose    *)
(* object still exists, although a connection may end twice: by its peer   *)
(* and by the end of its worker (server_worker.cpp:40-62,                  *)
(* client_connection.cpp:65-76).                                           *)
CounterExact ==
    \A w \in Workers : counter[w] = Cardinality(ConnectionsOf(w))

(* As long as no client has left, no worker has more than one connection   *)
(* above another (multithread_tcp_server.cpp:89-103).                      *)
Balanced ==
    (\A c \in Connections : conn[c] # "destroyed") =>
        \A w, v \in Workers : counter[w] <= counter[v] + 1

(* Nothing uses or deletes a database connection that is not there, and no *)
(* thread is destroyed while it runs.  The code alone does not ensure it;  *)
(* Server says with which callers and clients it holds.                    *)
NoFault == fault = "none"

(* multithread_tcp_server.cpp:74-78: on stopped() the connections break    *)
(* off, and the server "can then be considered idle".                      *)
IdleOnceStopped == fault # "usedAfterDelete"

(* multithread_tcp_server.h:46-48: removeWorkers() frees the resources     *)
(* allocated for the workers.                                              *)
FreedOnce == fault # "doubleDelete"
=============================================================================
