---------------------------- MODULE ServerProofs ----------------------------
(***************************************************************************)
(* Theorems about Server: what its parts promise by themselves they also   *)
(* keep together.  Every step of the server is a step of ServerWorkers or  *)
(* leaves it alone, and the same of MessageAssembly, so that the theorems  *)
(* about them hold of the server.                                          *)
(***************************************************************************)
EXTENDS Server, TLAPS

(* The two components with the theorems about them.                        *)
WP == INSTANCE ServerWorkersProofs WITH
        Orderly <- FALSE, Patient <- FALSE, Destruction <- FALSE

AP == INSTANCE MessageAssemblyProofs WITH
        Pipelining <- TRUE,
        phase <- [c \in Connections |->
                    IF conn[c] \in {"absent", "open"} THEN conn[c] ELSE "gone"]

(* What those theorems assume of the constants.                            *)
LEMMA PartsAssumptions ==
  /\ WP!WorkersAssumption /\ WP!ConnectionsAssumption /\ WP!BoundsAssumption
  /\ AP!CutsAssumption /\ AP!BoundAssumption /\ AP!PipeliningAssumption
<1>1. WP!WorkersAssumption /\ WP!BoundsAssumption
  BY BoundsAssumption DEF WP!WorkersAssumption, WP!BoundsAssumption
<1>2. WP!ConnectionsAssumption
  BY BoundsAssumption DEF WP!ConnectionsAssumption, WP!IsFiniteSet, IsFiniteSet
<1>3. AP!CutsAssumption /\ AP!BoundAssumption /\ AP!PipeliningAssumption
  BY BoundsAssumption, CutsAssumption
     DEF AP!CutsAssumption, AP!BoundAssumption, AP!PipeliningAssumption,
         A!AllCuts, AP!AllCuts, A!Adjacent, AP!Adjacent
<1>4. QED BY <1>1, <1>2, <1>3

-----------------------------------------------------------------------------
(* WP and W are two names of one component, and so are AP and A: with all  *)
(* definitions expanded their formulas are the same.                       *)

LEMMA SameMain == W!Main <=> WP!Main
  BY DEF W!Main, WP!Main, W!StartWorker, WP!StartWorker, W!Started, WP!Started,
         W!QuitWorker, WP!QuitWorker, W!Stopped, WP!Stopped, W!Removed, WP!Removed,
         W!DeleteWorker, WP!DeleteWorker, W!DeleteDatabase, WP!DeleteDatabase,
         W!Workers, WP!Workers, W!serverVars, WP!serverVars, W!workerVars,
         WP!workerVars, W!connVars, WP!connVars

LEMMA SameOperator == W!Operator <=> WP!Operator
  BY DEF W!Operator, WP!Operator, W!Start, WP!Start, W!Stop, WP!Stop, W!Destroy,
         WP!Destroy, W!MainIsFree, WP!MainIsFree, W!Serving, WP!Serving, W!Workers,
         WP!Workers, W!serverVars, WP!serverVars, W!workerVars, WP!workerVars,
         W!connVars, WP!connVars

LEMMA SameRun ==
  /\ W!Workers = WP!Workers
  /\ \A w \in W!Workers : W!Run(w) <=> WP!Run(w)
  BY DEF W!Run, WP!Run, W!Configure, WP!Configure, W!Open, WP!Open, W!Exec, WP!Exec,
         W!LeaveLoop, WP!LeaveLoop, W!Finishing, WP!Finishing, W!Finished,
         WP!Finished, W!ConnectionsOf, WP!ConnectionsOf, W!Alive, WP!Alive,
         W!Workers, WP!Workers, W!serverVars, WP!serverVars, W!mainVars,
         WP!mainVars, W!connVars, WP!connVars

LEMMA SameClient ==
  \A c \in Connections : (W!Client(c) <=> WP!Client(c)) /\ (W!Event(c) <=> WP!Event(c))
  BY DEF W!Client, WP!Client, W!Event, WP!Event, W!IncomingConnection,
         WP!IncomingConnection, W!LeastLoaded, WP!LeastLoaded, W!Accept, WP!Accept,
         W!Query, WP!Query, W!PeerLeaves, WP!PeerLeaves, W!CloseEvent, WP!CloseEvent,
         W!SocketClosed, WP!SocketClosed, W!DeferredDelete, WP!DeferredDelete,
         W!MainIsFree, WP!MainIsFree, W!Serving, WP!Serving, W!Workers, WP!Workers,
         W!serverVars, WP!serverVars, W!mainVars, WP!mainVars, W!workerVars,
         WP!workerVars

LEMMA SameAssembly ==
  \A c \in Connections :
      /\ A!Connect(c) <=> AP!Connect(c)
      /\ A!Write(c) <=> AP!Write(c)
      /\ A!ProcessIncomingMessage(c) <=> AP!ProcessIncomingMessage(c)
      /\ A!Disconnect(c) <=> AP!Disconnect(c)
  BY DEF A!Connect, AP!Connect, A!Write, AP!Write, A!ProcessIncomingMessage,
         AP!ProcessIncomingMessage, A!Disconnect, AP!Disconnect, A!Fragments,
         AP!Fragments, A!FromUtf8, AP!FromUtf8, A!IsDocument, AP!IsDocument,
         A!IsObject, AP!IsObject, A!Fits, AP!Fits, A!OpensWord, AP!OpensWord,
         A!Quoteless, AP!Quoteless, A!AwaitsValue, AP!AwaitsValue, A!GoesOn,
         AP!GoesOn, A!Adjacent, AP!Adjacent, A!Uncut, AP!Uncut

-----------------------------------------------------------------------------
(* Server implements ServerWorkers.                                        *)
LEMMA WorkersStep ==
  ASSUME [Next]_vars
  PROVE  [WP!Next]_(WP!vars)
<1> USE DEF workersVars, assemblyVars
<1>1. CASE UNCHANGED vars \/ UNCHANGED workersVars
  BY <1>1 DEF vars, WP!vars, WP!serverVars, WP!mainVars, WP!workerVars, WP!connVars
<1>2. CASE Next
  <2>1. fault = "none"
    BY <1>2 DEF Next, Followed
  <2>2. CASE Start \/ Stop
    <3>1. WP!Operator
      BY <2>2, SameOperator DEF Start, Stop, W!Operator
    <3>2. QED BY <2>1, <3>1 DEF WP!Next
  <2>3. CASE Main
    <3>1. WP!Main
      BY <2>3, SameMain DEF Main
    <3>2. QED BY <2>1, <3>1 DEF WP!Next
  <2>4. ASSUME NEW w \in W!Workers, Run(w)
        PROVE  WP!Next
    <3>1. w \in WP!Workers /\ WP!Run(w)
      BY <2>4, SameRun DEF Run
    <3>2. QED BY <2>1, <3>1 DEF WP!Next
  <2>5. ASSUME NEW c \in Connections, Client(c) \/ Slot(c) \/ Event(c)
        PROVE  WP!Next \/ UNCHANGED workersVars
    <3>1. CASE \/ Accept(c) \/ PeerLeaves(c) \/ EndQuery(c)
               \/ ProcessIncomingMessage(c) /\ ~ UNCHANGED workersVars
      <4>1. W!Client(c)
        BY <3>1 DEF Accept, PeerLeaves, EndQuery, ProcessIncomingMessage, W!Client
      <4>2. WP!Client(c)
        BY <4>1, SameClient
      <4>3. QED BY <2>1, <4>2 DEF WP!Next
    <3>2. CASE Event(c)
      <4>1. W!Event(c)
        BY <3>2 DEF Event, CloseEvent, SocketClosed, DeferredDelete, W!Event
      <4>2. WP!Event(c)
        BY <4>1, SameClient
      <4>3. QED BY <2>1, <4>2 DEF WP!Next
    <3>3. CASE Write(c)
      BY <3>3 DEF Write
    <3>4. QED BY <2>5, <3>1, <3>2, <3>3 DEF Client, Slot
  <2>6. QED BY <1>1, <1>2, <2>2, <2>3, <2>4, <2>5 DEF Next
<1>3. QED BY <1>1, <1>2

(* The server with its messages and queries is still the server that       *)
(* ServerWorkers describes, with any caller and any clients.               *)
THEOREM ImplementsWorkers == Spec => WP!Spec
<1>1. Init => WP!Init
  BY DEF Init, W!Init, WP!Init, W!Workers, WP!Workers
<1>2. [Next]_vars => [WP!Next]_(WP!vars)
  BY WorkersStep
<1>3. QED BY <1>1, <1>2, PTL DEF Spec, WP!Spec

(* What ServerWorkersProofs shows holds of the whole server.               *)
THEOREM WorkersPromises ==
  Spec => [](/\ WP!TypeOK /\ WP!ServingWorkerHasDatabase
             /\ WP!CounterExact /\ WP!Balanced)
<1>1. /\ WP!Spec => []WP!TypeOK
      /\ WP!Spec => []WP!CounterExact
      /\ WP!Spec => []WP!ServingWorkerHasDatabase
      /\ WP!Spec => []WP!Balanced
  BY PartsAssumptions, WP!WorkersTypeCorrect, WP!CountersExact, WP!ServingHasDatabase,
     WP!WorkersBalanced
<1>2. QED BY <1>1, ImplementsWorkers, PTL

-----------------------------------------------------------------------------
(* Server implements MessageAssembly, to which a connection is gone as     *)
(* soon as its socket closes.  What the steps of one are to the other:     *)
LEMMA AssemblyMove ==
  ASSUME WP!TypeOK, [Next]_vars
  PROVE  \/ UNCHANGED AP!vars
         \/ \E c \in Connections :
              \/ AP!Connect(c)
              \/ Write(c) /\ AP!Write(c)
              \/ AP!ProcessIncomingMessage(c)
              \/ (PeerLeaves(c) \/ CloseEvent(c)) /\ AP!Disconnect(c)
<1> DEFINE life == [c \in Connections |->
                      IF conn[c] \in {"absent", "open"} THEN conn[c] ELSE "gone"]
           Move == \/ UNCHANGED AP!vars
                   \/ \E c \in Connections :
                        \/ AP!Connect(c)
                        \/ Write(c) /\ AP!Write(c)
                        \/ AP!ProcessIncomingMessage(c)
                        \/ (PeerLeaves(c) \/ CloseEvent(c)) /\ AP!Disconnect(c)
<1>1. CASE UNCHANGED <<life, assemblyVars>>
  BY <1>1 DEF AP!vars, assemblyVars
<1>2. CASE UNCHANGED <<conn, assemblyVars>>
  BY <1>1, <1>2
<1>3. CASE UNCHANGED vars
  BY <1>2, <1>3 DEF vars, workersVars
<1>4. CASE Next
  <2>1. CASE Start \/ Stop \/ Main
    <3>1. UNCHANGED conn
      BY <2>1 DEF Start, Stop, Main, W!Start, W!Stop, W!Main, W!StartWorker, W!Started,
                  W!QuitWorker, W!Stopped, W!Removed, W!DeleteWorker, W!connVars
    <3>2. UNCHANGED assemblyVars
      BY <2>1 DEF Start, Stop, Main
    <3>3. QED BY <1>2, <3>1, <3>2
  <2>2. ASSUME NEW w \in W!Workers, Run(w)
        PROVE  UNCHANGED <<conn, assemblyVars>>
    BY <2>2 DEF Run, W!Run, W!Configure, W!Open, W!Exec, W!LeaveLoop, W!Finishing,
                W!Finished, W!connVars
  <2>3. ASSUME NEW c \in Connections, Client(c) \/ Slot(c) \/ Event(c)
        PROVE  Move
    <3>1. CASE Accept(c) \/ Write(c) \/ ProcessIncomingMessage(c) \/ PeerLeaves(c)
      <4>1. Accept(c) => A!Connect(c)
        BY DEF Accept
      <4>2. Write(c) => A!Write(c)
        BY DEF Write
      <4>3. ProcessIncomingMessage(c) => A!ProcessIncomingMessage(c)
        BY DEF ProcessIncomingMessage
      <4>4. PeerLeaves(c) => A!Disconnect(c)
        BY DEF PeerLeaves
      <4>5. QED BY <3>1, <4>1, <4>2, <4>3, <4>4, SameAssembly
    <3>2. CASE EndQuery(c)
      BY <1>2, <3>2 DEF EndQuery, W!Query
    <3>3. CASE CloseEvent(c)
      <4>1. CASE conn[c] = "open" /\ A!Disconnect(c)
        BY <3>3, <4>1, SameAssembly
      <4>2. CASE conn[c] # "open" /\ UNCHANGED assemblyVars
        <5>1. UNCHANGED conn
          BY <3>3, <4>2 DEF CloseEvent, W!CloseEvent, WP!TypeOK
        <5>2. QED BY <1>2, <4>2, <5>1
      <4>3. QED BY <3>3, <4>1, <4>2 DEF CloseEvent
    <3>4. CASE SocketClosed(c) \/ DeferredDelete(c)
      <4>1. /\ \E after \in {"dying", "destroyed"} : conn' = [conn EXCEPT ![c] = after]
            /\ conn[c] \in {"closing", "dying"}
        BY <3>4 DEF SocketClosed, DeferredDelete, W!SocketClosed, W!DeferredDelete
      <4>2. UNCHANGED life
        BY <4>1 DEF WP!TypeOK
      <4>3. UNCHANGED assemblyVars
        BY <3>4 DEF SocketClosed, DeferredDelete
      <4>4. QED BY <1>1, <4>2, <4>3
    <3>5. QED BY <2>3, <3>1, <3>2, <3>3, <3>4 DEF Client, Slot, Event
  <2>4. QED BY <1>2, <1>4, <2>1, <2>2, <2>3 DEF Next
<1>5. QED BY <1>3, <1>4

LEMMA AssemblyStep ==
  ASSUME WP!TypeOK, [Next]_vars
  PROVE  [AP!Next]_(AP!vars)
BY AssemblyMove DEF AP!Next

(* The messages of the server's connections are assembled the way          *)
(* MessageAssembly describes, also over stops and starts.                  *)
THEOREM ImplementsAssembly == Spec => AP!Spec
<1>1. Init => AP!Init
  BY DEF Init, A!Init, AP!Init
<1>2. WP!TypeOK /\ [Next]_vars => [AP!Next]_(AP!vars)
  BY AssemblyStep
<1>3. QED BY <1>1, <1>2, WorkersPromises, PTL DEF Spec, AP!Spec

(* Also over stops and starts of the server no message is processed twice  *)
(* or out of order, and a document is one message of its client and of     *)
(* nobody else unless a cut at a brace, a comma, a colon or a value joined *)
(* it to others.                                                           *)
THEOREM AssemblyPromises ==
  Spec => [](AP!TypeOK /\ AP!InOrder /\ AP!ReturnedWhole)
<1>1. /\ AP!Spec => []AP!TypeOK
      /\ AP!Spec => []AP!InOrder
      /\ AP!Spec => []AP!ReturnedWhole
  BY PartsAssumptions, AP!TypeCorrect, AP!ProcessedInOrder, AP!DocumentsAreWhole
<1>2. QED BY <1>1, ImplementsAssembly, PTL

-----------------------------------------------------------------------------
(* Every variable of the composition has its type.                         *)
THEOREM ServerTypeCorrect == Spec => []TypeOK
<1> DEFINE Own == slot \in Connections \cup {NoOne} /\ unruly \in 0 .. MaxUnruly + 1
<1>1. Init => Own
  BY BoundsAssumption DEF Init
<1>2. Own /\ [Next]_vars => Own'
  <2> SUFFICES ASSUME Own, [Next]_vars PROVE Own'
    OBVIOUS
  <2>1. slot' \in Connections \cup {NoOne}
    <3>1. slot' = slot \/ slot' = NoOne \/ slot' \in Connections
      BY DEF Next, Start, Stop, Main, Run, Client, Slot, Event, Accept, Write,
             ProcessIncomingMessage, EndQuery, PeerLeaves, CloseEvent, SocketClosed,
             DeferredDelete, vars
    <3>2. QED BY <3>1
  <2>2. unruly' \in 0 .. MaxUnruly + 1
    <3>1. unruly' = unruly \/ (unruly <= MaxUnruly /\ unruly' = unruly + 1)
      BY DEF Next, Followed, Start, Stop, Main, Run, Client, Slot, Event, Accept,
             Write, ProcessIncomingMessage, EndQuery, PeerLeaves, CloseEvent,
             SocketClosed, DeferredDelete, InTurn, vars
    <3>2. QED BY <3>1, BoundsAssumption
  <2>3. QED BY <2>1, <2>2
<1>3. Spec => []Own
  BY <1>1, <1>2, PTL DEF Spec
<1>4. WP!TypeOK /\ AP!TypeOK /\ Own => TypeOK
  BY DEF TypeOK, W!TypeOK, WP!TypeOK, A!TypeOK, AP!TypeOK, W!Workers, WP!Workers,
         A!Piece, AP!Piece, A!AllCuts, AP!AllCuts, A!Adjacent, AP!Adjacent,
         A!Uncut, AP!Uncut
<1>5. QED BY <1>3, <1>4, WorkersPromises, AssemblyPromises, PTL

(* While a query is processed nothing closes its connection, although the  *)
(* worker threads go on.                                                   *)
THEOREM AnswersAreDelivered == Spec => []AnswersGoToOpenConnections
<1>1. Init => AnswersGoToOpenConnections
  BY DEF Init, AnswersGoToOpenConnections
<1>2. AnswersGoToOpenConnections /\ [Next]_vars => AnswersGoToOpenConnections'
  <2> SUFFICES ASSUME AnswersGoToOpenConnections, [Next]_vars, slot' # NoOne
               PROVE  conn'[slot'] = "open"
    BY DEF AnswersGoToOpenConnections
  <2>1. CASE UNCHANGED <<conn, slot>>
    BY <2>1 DEF AnswersGoToOpenConnections
  <2>2. CASE slot = NoOne /\ Next
    <3>1. PICK c \in Connections : ProcessIncomingMessage(c) /\ slot' # slot
      BY <2>2 DEF Next, Start, Stop, Main, Run, Client, Slot, Event, Accept, Write,
                  EndQuery, PeerLeaves, CloseEvent, SocketClosed, DeferredDelete
    <3>2. slot' = c /\ W!Query(c) /\ UNCHANGED conn
      BY <3>1 DEF ProcessIncomingMessage
    <3>3. QED BY <3>2 DEF W!Query
  <2>3. CASE slot # NoOne /\ Next
    <3>1. CASE \E w \in W!Workers : Run(w)
      BY <2>1, <3>1 DEF Run, W!Run, W!Configure, W!Open, W!Exec, W!LeaveLoop,
                        W!Finishing, W!Finished, W!connVars
    <3>2. CASE \E c \in Connections : Write(c)
      BY <2>1, <3>2 DEF Write, workersVars
    <3>3. CASE \E c \in Connections : EndQuery(c)
      BY <3>3 DEF EndQuery
    <3>4. QED
      BY <2>3, <3>1, <3>2, <3>3
         DEF Next, Start, Stop, Main, Client, Slot, Event, Accept, PeerLeaves,
             ProcessIncomingMessage, CloseEvent, SocketClosed, DeferredDelete, Idle
  <2>4. QED BY <2>1, <2>2, <2>3 DEF vars, workersVars
<1>3. QED BY <1>1, <1>2, PTL DEF Spec

-----------------------------------------------------------------------------
(* Taking turns.  What keeps a server without acts out of turn from faults *)
(* is that the operator finds all workers in the same part of their lives: *)
(* engaged between a start() and the next stop(), dismissed between a      *)
(* stop() and the next start(), and no close() queued while any is         *)
(* engaged.                                                                *)
Engaged(w) ==
    thread[w] \in {"configuring", "opening", "opened", "loop"} /\ ~ exited[w]

Dismissed(w) ==
    \/ thread[w] \in {"leaving", "finishing", "idle"}
    \/ thread[w] = "loop" /\ exited[w]

CallsInTurn ==
    \/ call = "none" /\ \A w \in W!Workers : Dismissed(w)
    \/ call = "none" /\ closeQueued = {} /\ \A w \in W!Workers : Engaged(w)
    \/ /\ call = "start" /\ closeQueued = {}
       /\ \A w \in W!Workers : IF w < next THEN Engaged(w) ELSE thread[w] = "idle"
    \/ /\ call = "stop"
       /\ \A w \in W!Workers : IF w < next THEN Dismissed(w) ELSE W!Serving(w)

(* Whoever has something on its way finds all workers serving, and nobody  *)
(* takes them from it before it is processed.                              *)
DisciplineInv ==
    unruly = 0 =>
        /\ fault = "none"
        /\ CallsInTurn
        /\ Quiet \/ (Settled /\ call = "none")

(* Only acts out of turn raise unruly, and nothing lowers it.              *)
LEMMA TurnsCounted ==
  ASSUME unruly \in Nat, [Next]_vars, unruly' = 0
  PROVE  unruly = 0
<1>1. unruly' = unruly \/ unruly' = unruly + 1
  BY DEF Next, Start, Stop, Main, Run, Client, Slot, Event, Accept, Write,
         ProcessIncomingMessage, EndQuery, PeerLeaves, CloseEvent, SocketClosed,
         DeferredDelete, InTurn, vars
<1>2. QED BY <1>1

(* What the steps of the operator and of the main thread do.               *)
LEMMA MainInTurn ==
  ASSUME WP!TypeOK, WP!ServingWorkerHasDatabase, fault = "none", CallsInTurn,
         Quiet \/ (Settled /\ call = "none"),
         unruly = 0, unruly' = 0, Start \/ Stop \/ Main
  PROVE  fault' = "none" /\ CallsInTurn' /\ Quiet'
<1> USE DEF W!serverVars, W!workerVars, W!connVars
<1>1. /\ thread \in [W!Workers -> {"idle", "configuring", "opening", "opened",
                                  "loop", "leaving", "finishing"}]
      /\ exited \in [W!Workers -> BOOLEAN]
      /\ next \in 1 .. WorkersNumber + 1
      /\ W!Workers = 1 .. WorkersNumber /\ WorkersNumber \in Nat
  BY BoundsAssumption, SameRun DEF WP!TypeOK, W!Workers
<1>2. \A w \in W!Workers : w \in Nat /\ ~ (w < 1)
  BY <1>1
<1>3. CASE Start
  <2>1. /\ fault' = fault /\ Quiet /\ AtRest
        /\ call' = "start" /\ next' = 1
        /\ UNCHANGED <<thread, exited, closeQueued, slot, stream>>
    <3>1. Quiet /\ AtRest
      BY <1>3 DEF Start, InTurn
    <3>2. QED BY <1>3, <3>1 DEF Start, W!Start, assemblyVars
  <2>2. CallsInTurn'
    BY <1>2, <2>1 DEF AtRest, CallsInTurn
  <2>3. QED BY <2>1, <2>2 DEF Quiet
<1>4. CASE Stop
  <2>1. /\ fault' = fault /\ Quiet /\ Settled
        /\ call' = "stop" /\ next' = 1
        /\ UNCHANGED <<thread, exited, slot, stream>>
    BY <1>4 DEF Stop, W!Stop, assemblyVars, InTurn
  <2>2. CallsInTurn'
    BY <1>2, <2>1 DEF Settled, CallsInTurn, W!Serving
  <2>3. QED BY <2>1, <2>2 DEF Quiet
<1>5. CASE Main
  <2>1. W!Main /\ UNCHANGED <<slot, stream>>
    BY <1>5 DEF Main, assemblyVars
  <2>2. call # "none"
    BY <2>1 DEF W!Main, W!StartWorker, W!Started, W!QuitWorker, W!Stopped, W!Removed,
                W!DeleteWorker
  <2>3. Quiet'
    BY <2>1, <2>2 DEF Quiet
  <2>4. CASE W!StartWorker
    <3>1. /\ call = "start" /\ next \in W!Workers /\ next' = next + 1
          /\ call' = call /\ fault' = fault /\ closeQueued' = closeQueued
      BY <2>4 DEF W!StartWorker
    <3>2. /\ closeQueued = {}
          /\ \A w \in W!Workers : IF w < next THEN Engaged(w) ELSE thread[w] = "idle"
      BY <3>1 DEF CallsInTurn
    <3>3. thread[next] = "idle"
      BY <1>1, <3>1, <3>2
    <3>4. /\ thread' = [thread EXCEPT ![next] = "configuring"]
          /\ exited' = [exited EXCEPT ![next] = FALSE]
      BY <2>4, <3>3 DEF W!StartWorker
    <3>5. ASSUME NEW w \in W!Workers
          PROVE  IF w < next + 1 THEN Engaged(w)' ELSE thread'[w] = "idle"
      <4>1. CASE w = next
        BY <1>1, <3>1, <3>4, <4>1 DEF Engaged
      <4>2. CASE w # next
        <5>1. thread'[w] = thread[w] /\ exited'[w] = exited[w]
          BY <1>1, <3>4, <4>2
        <5>2. w < next + 1 <=> w < next
          BY <1>1, <4>2
        <5>3. QED BY <3>2, <5>1, <5>2 DEF Engaged
      <4>3. QED BY <4>1, <4>2
    <3>6. CallsInTurn'
      BY <3>1, <3>2, <3>5 DEF CallsInTurn
    <3>7. QED BY <2>3, <3>1, <3>6
  <2>5. CASE W!Started
    <3>1. /\ call = "start" /\ next \notin W!Workers /\ call' = "none"
          /\ UNCHANGED <<thread, exited, fault, closeQueued>>
      BY <2>5 DEF W!Started
    <3>2. \A w \in W!Workers : w < next
      BY <1>1, <3>1
    <3>3. closeQueued = {} /\ \A w \in W!Workers : Engaged(w)
      BY <3>1, <3>2 DEF CallsInTurn
    <3>4. CallsInTurn'
      BY <3>1, <3>3 DEF CallsInTurn, Engaged
    <3>5. QED BY <2>3, <3>1, <3>4
  <2>6. CASE W!QuitWorker
    <3>1. /\ call = "stop" /\ next \in W!Workers /\ next' = next + 1
          /\ W!DeleteDatabase(next) /\ exited' = [exited EXCEPT ![next] = TRUE]
          /\ call' = call /\ thread' = thread
      BY <2>6 DEF W!QuitWorker, CallsInTurn
    <3>2. \A w \in W!Workers : IF w < next THEN Dismissed(w) ELSE W!Serving(w)
      BY <3>1 DEF CallsInTurn
    <3>3. W!Serving(next)
      BY <1>1, <3>1, <3>2
    <3>4. db[next] \in {"open", "failed"}
      BY <3>1, <3>3, SameRun DEF WP!ServingWorkerHasDatabase, WP!Serving, W!Serving
    <3>5. fault' = "none"
      BY <3>1, <3>4 DEF W!DeleteDatabase
    <3>6. ASSUME NEW w \in W!Workers
          PROVE  IF w < next + 1 THEN Dismissed(w)' ELSE W!Serving(w)'
      <4>1. CASE w = next
        BY <1>1, <3>1, <3>3, <4>1 DEF Dismissed, W!Serving
      <4>2. CASE w # next
        <5>1. thread'[w] = thread[w] /\ exited'[w] = exited[w]
          BY <1>1, <3>1, <4>2
        <5>2. w < next + 1 <=> w < next
          BY <1>1, <4>2
        <5>3. QED BY <3>2, <5>1, <5>2 DEF Dismissed, W!Serving
      <4>3. QED BY <4>1, <4>2
    <3>7. CallsInTurn'
      BY <3>1, <3>6 DEF CallsInTurn
    <3>8. QED BY <2>3, <3>5, <3>7
  <2>7. CASE W!Stopped
    <3>1. /\ call = "stop" /\ next \notin W!Workers /\ call' = "none"
          /\ UNCHANGED <<thread, exited, fault>>
      BY <2>7 DEF W!Stopped
    <3>2. \A w \in W!Workers : w < next
      BY <1>1, <3>1
    <3>3. \A w \in W!Workers : Dismissed(w)
      BY <3>1, <3>2 DEF CallsInTurn
    <3>4. CallsInTurn'
      BY <3>1, <3>3 DEF CallsInTurn, Dismissed
    <3>5. QED BY <2>3, <3>1, <3>4
  <2>8. ~ W!Removed /\ ~ W!DeleteWorker
    BY DEF W!Removed, W!DeleteWorker, CallsInTurn
  <2>9. QED BY <2>1, <2>4, <2>5, <2>6, <2>7, <2>8 DEF W!Main
<1>6. QED BY <1>3, <1>4, <1>5

(* What the worker threads do: those engaged go on into their loops, those *)
(* dismissed leave them.  While somebody is being served none does a thing.*)
LEMMA RunInTurn ==
  ASSUME WP!TypeOK, fault = "none", CallsInTurn,
         Quiet \/ (Settled /\ call = "none"),
         NEW w \in W!Workers, Run(w)
  PROVE  fault' = "none" /\ CallsInTurn' /\ Quiet'
<1>1. /\ thread \in [W!Workers -> {"idle", "configuring", "opening", "opened",
                                  "loop", "leaving", "finishing"}]
      /\ exited \in [W!Workers -> BOOLEAN]
  BY SameRun DEF WP!TypeOK
<1>2. /\ W!Run(w) /\ UNCHANGED <<slot, stream, call, next>>
      /\ fault' = fault
  BY DEF Run, W!Run, W!Configure, W!Open, W!Exec, W!LeaveLoop, W!Finishing, W!Finished,
         W!mainVars, assemblyVars
<1>3. ~ W!Serving(w) /\ thread[w] # "idle"
  BY <1>2 DEF W!Serving, W!Run, W!Configure, W!Open, W!Exec, W!LeaveLoop, W!Finishing,
              W!Finished
<1>4. Quiet'
  BY <1>2, <1>3 DEF Settled, Quiet
<1>5. \A v \in W!Workers : v # w => thread'[v] = thread[v] /\ exited'[v] = exited[v]
  BY <1>1, <1>2 DEF W!Run, W!Configure, W!Open, W!Exec, W!LeaveLoop, W!Finishing,
                    W!Finished
<1>6. Engaged(w) => Engaged(w)' /\ closeQueued' = closeQueued
  BY <1>1, <1>2 DEF Engaged, W!Run, W!Configure, W!Open, W!Exec, W!LeaveLoop,
                    W!Finishing, W!Finished, W!connVars
<1>7. Dismissed(w) => Dismissed(w)'
  BY <1>1, <1>2 DEF Dismissed, W!Run, W!Configure, W!Open, W!Exec, W!LeaveLoop,
                    W!Finishing, W!Finished
<1>8. /\ \A v \in W!Workers : Engaged(v) => Engaged(v)'
      /\ \A v \in W!Workers : Dismissed(v) => Dismissed(v)'
  BY <1>5, <1>6, <1>7 DEF Engaged, Dismissed
<1>9. \A v \in W!Workers : /\ W!Serving(v) => W!Serving(v)'
                           /\ thread[v] = "idle" => thread'[v] = "idle"
  BY <1>3, <1>5 DEF W!Serving
<1>10. CallsInTurn'
  <2>1. CASE call = "none" /\ \A v \in W!Workers : Dismissed(v)
    BY <1>2, <1>8, <2>1 DEF CallsInTurn
  <2>2. CASE call = "none" /\ closeQueued = {} /\ \A v \in W!Workers : Engaged(v)
    BY <1>2, <1>6, <1>8, <2>2 DEF CallsInTurn
  <2>3. CASE /\ call = "start" /\ closeQueued = {}
             /\ \A v \in W!Workers : IF v < next THEN Engaged(v) ELSE thread[v] = "idle"
    <3>1. Engaged(w)
      BY <1>3, <2>3
    <3>2. closeQueued' = {}
      BY <1>6, <2>3, <3>1
    <3>3. \A v \in W!Workers : IF v < next THEN Engaged(v)' ELSE thread'[v] = "idle"
      BY <1>8, <1>9, <2>3
    <3>4. QED BY <1>2, <2>3, <3>2, <3>3 DEF CallsInTurn
  <2>4. CASE /\ call = "stop"
             /\ \A v \in W!Workers : IF v < next THEN Dismissed(v) ELSE W!Serving(v)
    <3>1. \A v \in W!Workers : IF v < next THEN Dismissed(v)' ELSE W!Serving(v)'
      BY <1>8, <1>9, <2>4
    <3>2. QED BY <1>2, <2>4, <3>1 DEF CallsInTurn
  <2>5. QED BY <2>1, <2>2, <2>3, <2>4 DEF CallsInTurn
<1>11. QED BY <1>2, <1>4, <1>10

(* Clients and the events of their connections leave the workers and the   *)
(* caller alone, and queue no close().                                     *)
LEMMA ClientsLeaveWorkers ==
  ASSUME NEW c \in Connections, Client(c) \/ Slot(c) \/ Event(c)
  PROVE  /\ UNCHANGED <<call, next, thread, exited, db>>
         /\ closeQueued' \subseteq closeQueued
         /\ fault' = fault \/ W!Query(c)
<1> USE DEF W!mainVars, W!workerVars, workersVars
<1>1. CASE Accept(c)
  BY <1>1 DEF Accept, W!IncomingConnection, W!Accept
<1>2. CASE Write(c)
  BY <1>2 DEF Write
<1>3. CASE ProcessIncomingMessage(c) \/ EndQuery(c)
  BY <1>3 DEF ProcessIncomingMessage, EndQuery, W!Query
<1>4. CASE PeerLeaves(c) \/ CloseEvent(c) \/ SocketClosed(c) \/ DeferredDelete(c)
  BY <1>4 DEF PeerLeaves, CloseEvent, SocketClosed, DeferredDelete, W!PeerLeaves,
              W!CloseEvent, W!SocketClosed, W!DeferredDelete
<1>5. QED BY <1>1, <1>2, <1>3, <1>4 DEF Client, Slot, Event

(* A query finds the database connection of its worker.                    *)
LEMMA QueryInTurn ==
  ASSUME WP!TypeOK, WP!ServingWorkerHasDatabase, fault = "none",
         NEW c \in Connections, W!Query(c), Settled
  PROVE  fault' = "none"
<1>1. home[c] \in W!Workers
  BY SameRun DEF WP!TypeOK
<1>2. db[home[c]] \in {"open", "failed"}
  BY <1>1, SameRun DEF Settled, WP!ServingWorkerHasDatabase, WP!Serving, W!Serving
<1>3. QED BY <1>2 DEF W!Query

LEMMA ClientsInTurn ==
  ASSUME WP!TypeOK, WP!ServingWorkerHasDatabase, AP!TypeOK, fault = "none", CallsInTurn,
         Quiet \/ (Settled /\ call = "none"), unruly = 0, unruly' = 0,
         NEW c \in Connections, Client(c) \/ Slot(c) \/ Event(c)
  PROVE  /\ fault' = "none" /\ CallsInTurn'
         /\ Quiet' \/ (Settled' /\ call' = "none")
<1>1. /\ UNCHANGED <<call, next, thread, exited, db>>
      /\ closeQueued' \subseteq closeQueued
      /\ fault' = fault \/ W!Query(c)
  BY ClientsLeaveWorkers
<1>2. CallsInTurn'
  <2>1. closeQueued = {} => closeQueued' = {}
    BY <1>1
  <2>2. QED BY <1>1, <2>1 DEF CallsInTurn, Engaged, Dismissed, W!Serving
<1>3. (Settled => Settled') /\ call' = call
  BY <1>1 DEF Settled, W!Serving
<1>4. CASE Write(c)
  <2>1. Settled /\ call = "none" /\ fault' = fault
    BY <1>4 DEF Write, InTurn, workersVars
  <2>2. QED BY <1>2, <1>3, <2>1
<1>5. CASE Slot(c)
  <2>1. ~ Quiet
    <3>1. CASE EndQuery(c)
      BY <3>1, NoOneAssumption DEF EndQuery, Quiet
    <3>2. CASE ProcessIncomingMessage(c)
      <4>1. \E n \in 1 .. Len(stream[c]) : TRUE
        BY <3>2 DEF ProcessIncomingMessage, A!ProcessIncomingMessage
      <4>2. 1 .. Len(<<>>) = {}
        OBVIOUS
      <4>3. QED BY <4>1, <4>2 DEF Quiet
    <3>3. QED BY <1>5, <3>1, <3>2 DEF Slot
  <2>2. Settled /\ call = "none"
    BY <2>1
  <2>3. fault' = "none"
    BY <1>1, <2>2, QueryInTurn
  <2>4. QED BY <1>2, <1>3, <2>2, <2>3
<1>6. CASE Accept(c) \/ PeerLeaves(c) \/ Event(c)
  <2>1. fault' = fault
    BY <1>6 DEF Accept, PeerLeaves, Event, CloseEvent, SocketClosed, DeferredDelete,
                W!IncomingConnection, W!Accept, W!PeerLeaves, W!CloseEvent,
                W!SocketClosed, W!DeferredDelete
  <2>2. Quiet => Quiet'
    <3>1. slot' = slot /\ \/ stream' = stream
                          \/ stream' = [stream EXCEPT ![c] = <<>>]
      BY <1>6 DEF Accept, PeerLeaves, Event, CloseEvent, SocketClosed, DeferredDelete,
                  A!Connect, A!Disconnect, assemblyVars
    <3>2. \A d \in Connections : stream'[d] = stream[d] \/ stream'[d] = <<>>
      BY <3>1 DEF AP!TypeOK
    <3>3. QED BY <3>1, <3>2 DEF Quiet
  <2>3. QED BY <1>2, <1>3, <2>1, <2>2
<1>7. QED BY <1>4, <1>5, <1>6 DEF Client

(* The discipline holds in every state as long as nobody has acted out of  *)
(* turn.                                                                   *)
LEMMA Discipline == Spec => []DisciplineInv
<1>1. Init => DisciplineInv
  <2> SUFFICES ASSUME Init PROVE fault = "none" /\ CallsInTurn /\ Quiet
    BY DEF DisciplineInv
  <2>1. /\ fault = "none" /\ call = "none"
        /\ \A w \in W!Workers : thread[w] = "idle"
    BY DEF Init, W!Init
  <2>2. Quiet
    BY DEF Init, A!Init, Quiet
  <2>3. QED BY <2>1, <2>2 DEF CallsInTurn, Dismissed
<1>2. /\ WP!TypeOK /\ WP!ServingWorkerHasDatabase /\ AP!TypeOK /\ TypeOK
      /\ DisciplineInv /\ [Next]_vars
      => DisciplineInv'
  <2> SUFFICES ASSUME WP!TypeOK, WP!ServingWorkerHasDatabase, AP!TypeOK, TypeOK,
                      DisciplineInv, [Next]_vars, unruly' = 0
               PROVE  /\ fault' = "none" /\ CallsInTurn'
                      /\ Quiet' \/ (Settled' /\ call' = "none")
    BY DEF DisciplineInv
  <2>1. unruly = 0
    BY TurnsCounted, BoundsAssumption DEF TypeOK
  <2>2. fault = "none" /\ CallsInTurn /\ (Quiet \/ (Settled /\ call = "none"))
    BY <2>1 DEF DisciplineInv
  <2>3. CASE Start \/ Stop \/ Main
    BY <2>1, <2>2, <2>3, MainInTurn
  <2>4. ASSUME NEW w \in W!Workers, Run(w)
        PROVE  fault' = "none" /\ CallsInTurn' /\ Quiet'
    BY <2>2, <2>4, RunInTurn
  <2>5. ASSUME NEW c \in Connections, Client(c) \/ Slot(c) \/ Event(c)
        PROVE  /\ fault' = "none" /\ CallsInTurn'
               /\ Quiet' \/ (Settled' /\ call' = "none")
    BY <2>1, <2>2, <2>5, ClientsInTurn
  <2>6. CASE UNCHANGED vars
    BY <2>2, <2>6 DEF vars, workersVars, assemblyVars, CallsInTurn, Engaged, Dismissed,
                      W!Serving, Quiet, Settled
  <2>7. QED BY <2>3, <2>4, <2>5, <2>6 DEF Next
<1>3. QED BY <1>1, <1>2, WorkersPromises, AssemblyPromises, ServerTypeCorrect, PTL DEF Spec

(* With an operator and clients that take turns no query ever uses a       *)
(* database connection that is not there, over any number of stops and     *)
(* starts with connections open, and for any number of workers and         *)
(* clients (server_worker.cpp:22-33, 52-54, 64-70).                        *)
THEOREM TurnsPreventFaults == Spec => []NoFault
<1>1. DisciplineInv => NoFault
  BY DEF DisciplineInv, NoFault, W!NoFault
<1>2. QED BY <1>1, Discipline, PTL

(* And they keep the turns of MessageAssembly: each message finds the      *)
(* shared string empty, and a connection is closed only when nothing of it *)
(* waits.                                                                  *)
TurnsInv == unruly = 0 => AP!TurnInv

LEMMA TurnsKept ==
  ASSUME WP!TypeOK, AP!TypeOK, TypeOK, DisciplineInv, TurnsInv, [Next]_vars
  PROVE  TurnsInv'
<1> SUFFICES ASSUME unruly' = 0 PROVE AP!TurnInv'
  BY DEF TurnsInv
<1>1. unruly = 0
  BY TurnsCounted, BoundsAssumption DEF TypeOK
<1>2. /\ AP!TurnInv /\ CallsInTurn
      /\ Quiet \/ (Settled /\ call = "none")
  BY <1>1 DEF TurnsInv, DisciplineInv
<1>3. CASE UNCHANGED AP!vars
  BY <1>2, <1>3, PartsAssumptions, AP!StutterKeepsTurns
<1>4. ASSUME NEW c \in Connections, AP!Connect(c) PROVE AP!TurnInv'
  BY <1>2, <1>4, PartsAssumptions, AP!ConnectKeepsTurns
<1>5. ASSUME NEW c \in Connections, Write(c), AP!Write(c) PROVE AP!TurnInv'
  <2>1. Quiet
    BY <1>1, <1>5 DEF Write, InTurn
  <2>2. stream[c] = <<>> /\ AP!Alone(c)
    BY <2>1 DEF Quiet, AP!Alone
  <2>3. QED BY <1>2, <1>5, <2>2, PartsAssumptions, AP!WriteKeepsTurns
<1>6. ASSUME NEW c \in Connections, AP!ProcessIncomingMessage(c) PROVE AP!TurnInv'
  BY <1>2, <1>6, PartsAssumptions, AP!ReadKeepsTurns
<1>7. ASSUME NEW c \in Connections, PeerLeaves(c) \/ CloseEvent(c), AP!Disconnect(c)
      PROVE  AP!TurnInv'
  <2>1. Quiet
    <3>1. CASE PeerLeaves(c)
      BY <1>1, <3>1 DEF PeerLeaves, InTurn
    <3>2. CASE CloseEvent(c)
      <4>1. closeQueued # {}
        BY <3>2 DEF CloseEvent, W!CloseEvent
      <4>2. 1 \in W!Workers
        BY BoundsAssumption DEF W!Workers
      <4>3. call = "none" => Dismissed(1)
        BY <1>2, <4>1, <4>2 DEF CallsInTurn
      <4>4. ~ (Settled /\ call = "none")
        BY <4>2, <4>3 DEF Settled, W!Serving, Dismissed
      <4>5. QED BY <1>2, <4>4
    <3>3. QED BY <1>7, <3>1, <3>2
  <2>2. stream[c] = <<>>
    BY <2>1 DEF Quiet
  <2>3. QED BY <1>2, <1>7, <2>2, PartsAssumptions, AP!DisconnectKeepsTurns
<1>8. QED BY <1>3, <1>4, <1>5, <1>6, <1>7, AssemblyMove

LEMMA TurnsInvariant == Spec => []TurnsInv
<1>1. Init => TurnsInv
  <2>1. AP!Init => AP!TurnInv
    BY PartsAssumptions, AP!TurnsBegin
  <2>2. QED BY <2>1 DEF Init, A!Init, AP!Init, TurnsInv
<1>2. WP!TypeOK /\ AP!TypeOK /\ TypeOK /\ DisciplineInv /\ TurnsInv /\ [Next]_vars
        => TurnsInv'
  BY TurnsKept
<1>3. QED BY <1>1, <1>2, Discipline, WorkersPromises, AssemblyPromises,
             ServerTypeCorrect, PTL DEF Spec

(* With clients and an operator that take turns, what the server has read  *)
(* in full it has processed, although all connections it has ever had      *)
(* shared one string and the network may cut every message                 *)
(* (client_connection.cpp:91).                                             *)
THEOREM TurnsAreServed == Spec => []ReadMessageIsReturned
<1>1. AP!TypeOK /\ TurnsInv => ReadMessageIsReturned
  <2>1. AP!TypeOK /\ AP!TurnInv => AP!ReadMessageIsReturned
    BY PartsAssumptions, AP!TurnsSuffice
  <2>2. AP!ReadMessageIsReturned => A!ReadMessageIsReturned
    BY DEF AP!ReadMessageIsReturned, A!ReadMessageIsReturned, AP!ReadInFull, A!ReadInFull
  <2>3. QED BY <2>1, <2>2 DEF TurnsInv, ReadMessageIsReturned
<1>2. QED BY <1>1, TurnsInvariant, AssemblyPromises, PTL

(* What the channel is to both names of the component.                     *)
LEMMA SameChannel ==
  /\ A!Channel!Next <=> AP!Channel!Next
  /\ UNCHANGED A!Channel!channelVars <=> UNCHANGED AP!Channel!channelVars
BY DEF A!Channel!Next, AP!Channel!Next,
       A!Channel!channelVars, AP!Channel!channelVars,
       A!Channel!Open, AP!Channel!Open, A!Channel!Ask, AP!Channel!Ask,
       A!Channel!Hand, AP!Channel!Hand, A!Channel!Close, AP!Channel!Close,
       A!Handed, AP!Handed, A!SameText, AP!SameText, A!OneMessage, AP!OneMessage,
       A!MessageOf, AP!MessageOf

(* A step that leaves nobody out of turn is a step of the channel.         *)
LEMMA ServesChannelStep ==
  ASSUME WP!TypeOK, AP!TypeOK, TypeOK, DisciplineInv, TurnsInv,
         AP!TypeOK', TurnsInv', [Next]_vars, unruly' = 0,
         \A cut \in Cuts : ~ cut.splits
  PROVE  A!Channel!Next \/ UNCHANGED A!Channel!channelVars
<1>1. unruly = 0
  BY TurnsCounted, BoundsAssumption DEF TypeOK
<1>2. AP!TurnInv /\ AP!TurnInv'
  BY <1>1 DEF TurnsInv
<1>3. [AP!Next]_(AP!vars)
  BY AssemblyStep
<1>4. [AP!Channel!Next]_(AP!Channel!channelVars)
  BY <1>2, <1>3, PartsAssumptions, AP!ChannelStep DEF AP!NothingSplits
<1>5. QED BY <1>4, SameChannel

(* With such clients, and a network that splits no character, the whole    *)
(* server implements the channel: as long as nobody acts out of turn, each *)
(* of its steps opens a connection, lets a client ask, hands over the next *)
(* message as it was written, closes a connection, or is nothing to the    *)
(* channel (client_connection.h:61-64).                                    *)
THEOREM TurnsMakeAChannel ==
  ASSUME \A cut \in Cuts : ~ cut.splits
  PROVE  Spec => ServesAsChannel
<1>1. WP!TypeOK /\ AP!TypeOK /\ TypeOK /\ DisciplineInv /\ TurnsInv /\ AP!TypeOK'
        /\ TurnsInv' /\ [Next]_vars
        => [unruly' = 0 => \/ A!Channel!Next
                         \/ UNCHANGED A!Channel!channelVars]_vars
  BY ServesChannelStep
<1>2. QED BY <1>1, TurnsInvariant, Discipline, WorkersPromises, AssemblyPromises,
             ServerTypeCorrect, PTL DEF Spec, ServesAsChannel
=============================================================================
