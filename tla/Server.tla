------------------------------- MODULE Server -------------------------------
(***************************************************************************)
(* The parts of the server together, as the event loop of the main thread  *)
(* joins them: connections come and go as in ServerWorkers, what they send *)
(* is assembled as in MessageAssembly, and a document that comes out is    *)
(* processed with the database connection of the worker its connection     *)
(* belongs to (app/src/client_connection.cpp, server_worker.cpp,           *)
(* multithread_tcp_server.cpp).                                            *)
(*                                                                         *)
(* A slot runs to its end before the main thread takes another event.  Of  *)
(* the statements of a query only the first and the last are followed, the *)
(* two between which the worker threads may do something; what they do to  *)
(* the data is in QueryProcessing.                                         *)
(***************************************************************************)
EXTENDS Integers, Sequences, FiniteSets

CONSTANTS WorkersNumber, Connections, MaxStarts, MaxStops,   \* ServerWorkers
          MaxMessages, Cuts,                                 \* MessageAssembly
          MaxUnruly,   \* bound: a behaviour is followed to the end of this
                       \* many acts out of turn, and up to the next one
          NoOne

ASSUME NoOneAssumption == NoOne \notin Connections
ASSUME BoundsAssumption ==
    /\ WorkersNumber \in Nat \ {0} /\ IsFiniteSet(Connections)
    /\ MaxStarts \in Nat /\ MaxStops \in Nat
    /\ MaxMessages \in Nat /\ MaxUnruly \in Nat

VARIABLES listening, announced, call, next, thread, exited, db, counter,
          conn, home, closeQueued, reply, starts, stops, fault,
          written, stream, clientMessage, returned,
          slot,         \* the connection whose query is being processed
          unruly        \* history: how often the operator or a client acted
                        \* out of turn

W == INSTANCE ServerWorkers WITH
        Orderly <- FALSE, Patient <- FALSE, Destruction <- FALSE

(* To the assembly a connection is open until its socket starts to close.  *)
A == INSTANCE MessageAssembly WITH
        Pipelining <- TRUE,
        phase <- [c \in Connections |->
                    IF conn[c] \in {"absent", "open"} THEN conn[c] ELSE "gone"]

ASSUME CutsAssumption == Cuts \subseteq A!AllCuts

workersVars  == <<listening, announced, call, next, thread, exited, db, counter,
                  conn, home, closeQueued, reply, starts, stops, fault>>
assemblyVars == <<written, stream, clientMessage, returned>>
vars == <<workersVars, assemblyVars, slot, unruly>>

Init == W!Init /\ A!Init /\ slot = NoOne /\ unruly = 0

(* The main thread is in no slot of a connection.                          *)
Idle_OneThreadEach == TRUE
Idle == slot = NoOne

(* Nothing a client wrote is still on its way.                             *)
Quiet == slot = NoOne /\ \A c \in Connections : stream[c] = <<>>

(* An act in turn, or one that is not.                                     *)
InTurn(condition) == unruly' = IF condition THEN unruly ELSE unruly + 1

(* The states a behaviour is followed from.                                *)
Followed == fault = "none" /\ unruly <= MaxUnruly

Settled == \A w \in W!Workers : W!Serving(w)
AtRest  == (\A w \in W!Workers : thread[w] = "idle") /\ closeQueued = {}

-----------------------------------------------------------------------------
Accept(c) ==
    /\ Idle
    /\ W!IncomingConnection(c) /\ A!Connect(c)
    /\ UNCHANGED <<slot, unruly>>

(* It is a client's turn to write when nobody has anything on its way and  *)
(* all workers serve.                                                      *)
Write(c) ==
    /\ InTurn(Quiet /\ Settled /\ call = "none")
    /\ UNCHANGED workersVars /\ A!Write(c)
    /\ UNCHANGED slot

(* processIncomingMessage(): with a document in hand the first statement   *)
(* of its query follows in the same slot.                                  *)
ProcessIncomingMessage(c) ==
    /\ Idle /\ W!MainIsFree
    /\ UNCHANGED conn /\ A!ProcessIncomingMessage(c)
    /\ \/ /\ returned' = returned
          /\ UNCHANGED <<workersVars, slot>>
       \/ /\ returned' # returned
          /\ W!Query(c) /\ slot' = c
    /\ UNCHANGED unruly

(* The last statement of the query and its answer.                         *)
EndQuery_Forgotten(c) ==
    /\ slot = c
    /\ W!Query(c)
    /\ UNCHANGED <<assemblyVars, slot, unruly>>
EndQuery(c) ==
    /\ slot = c
    /\ W!Query(c) /\ slot' = NoOne
    /\ UNCHANGED <<assemblyVars, unruly>>

PeerLeaves(c) ==
    /\ Idle
    /\ InTurn(Quiet)
    /\ W!PeerLeaves(c) /\ A!Disconnect(c)
    /\ UNCHANGED slot

(* A socket that is closed keeps nothing to read.                          *)
CloseEvent(c) ==
    /\ Idle
    /\ W!CloseEvent(c)
    /\ \/ conn[c] = "open" /\ A!Disconnect(c)
       \/ conn[c] # "open" /\ UNCHANGED assemblyVars
    /\ UNCHANGED <<slot, unruly>>

SocketClosed(c) ==
    /\ Idle
    /\ W!SocketClosed(c)
    /\ UNCHANGED <<assemblyVars, slot, unruly>>

DeferredDelete(c) ==
    /\ Idle
    /\ W!DeferredDelete(c)
    /\ UNCHANGED <<assemblyVars, slot, unruly>>

(* It is the operator's turn to start when nothing is on its way, every    *)
(* thread has ended and the connections of before a stop are closed.  A    *)
(* start() while a thread is still leaving its loop does nothing for it.   *)
Start ==
    /\ Idle
    /\ InTurn(Quiet /\ AtRest)
    /\ W!Start
    /\ UNCHANGED <<assemblyVars, slot>>

Stop ==
    /\ Idle
    /\ InTurn(Quiet /\ Settled)
    /\ W!Stop
    /\ UNCHANGED <<assemblyVars, slot>>

(* The rest of start() and stop().                                         *)
Main ==
    /\ Idle
    /\ W!Main
    /\ UNCHANGED <<assemblyVars, slot, unruly>>

(* The worker threads go on while a slot runs.                             *)
Run(w) == W!Run(w) /\ UNCHANGED <<assemblyVars, slot, unruly>>

-----------------------------------------------------------------------------
Client(c) == Accept(c) \/ Write(c) \/ PeerLeaves(c)

Slot(c) == ProcessIncomingMessage(c) \/ EndQuery(c)

Event(c) == CloseEvent(c) \/ SocketClosed(c) \/ DeferredDelete(c)

Next ==
    /\ Followed
    /\ \/ Start \/ Stop \/ Main
       \/ \E w \in W!Workers : Run(w)
       \/ \E c \in Connections : Client(c) \/ Slot(c) \/ Event(c)

Spec == Init /\ [][Next]_vars

(* What ServerWorkers and MessageAssembly assume, each for its own steps.  *)
Fairness ==
    /\ WF_vars(Followed /\ Main)
    /\ \A w \in W!Workers : WF_vars(Followed /\ Run(w))
    /\ \A c \in Connections :
         /\ WF_vars(Followed /\ Slot(c))
         /\ WF_vars(Followed /\ Event(c))

FairSpec == Spec /\ Fairness

-----------------------------------------------------------------------------
TypeOK == /\ W!TypeOK /\ A!TypeOK
          /\ slot \in Connections \cup {NoOne} /\ unruly \in 0 .. MaxUnruly + 1

(* While a query is processed its connection stays open, so that there is  *)
(* someone to answer: the loss of the peer, the queued close() and the     *)
(* deletion all wait for the slot to end (client_connection.cpp:61-82).    *)
AnswersGoToOpenConnections == slot # NoOne => conn[slot] = "open"

(* With an operator and clients that take turns, the server can be stopped *)
(* and started with connections open, and no query, from its first to its  *)
(* last statement, ever uses a database connection that is not there:      *)
(* those connections are closed before the next queries come               *)
(* (server_worker.cpp:22-33, 52-54, 64-70).                                *)
NoFault == unruly = 0 => W!NoFault

(* And what one of them wrote and the server read in full is processed,    *)
(* although the string it was assembled in was shared by all connections   *)
(* there have been since the program began (client_connection.cpp:91).     *)
ReadMessageIsReturned == unruly = 0 => A!ReadMessageIsReturned

(* Among such clients the whole server, with its stops and starts, its     *)
(* threads and the one string for all, is to each connection the channel   *)
(* of client_connection.h:61-64: each step opens it, asks, hands over the  *)
(* next message character for character, closes it or leaves it alone.     *)
ServesAsChannel ==
    [][unruly' = 0 => \/ A!Channel!Next
                      \/ UNCHANGED A!Channel!channelVars]_vars

(* What such a client wrote is processed to the end, and no stop or start  *)
(* comes between (client_connection.cpp:227-235).                          *)
EveryMessageProcessed == unruly = 0 /\ ~ Quiet ~> unruly # 0 \/ Quiet

(* As long as nobody acts out of turn, a stop closes every connection      *)
(* there is (server_worker.cpp:52-54), and a start brings every worker     *)
(* into service until the next stop (multithread_tcp_server.cpp:31-35).    *)
(* Both fail for acts out of turn: a start() that overtakes the threads of *)
(* the last stop starts none of them, QThread::start() does nothing for a  *)
(* thread that runs.                                                       *)
StopClosesConnections ==
    \A c \in Connections :
        call = "stop" /\ W!Alive(c) ~> unruly # 0 \/ conn[c] = "destroyed"
StartRunsWorkers ==
    call = "start" ~> \/ \A w \in W!Workers : W!Serving(w)
                      \/ call # "start" /\ announced = "stopped"
                      \/ unruly # 0
=============================================================================
