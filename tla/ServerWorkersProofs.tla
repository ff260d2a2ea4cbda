------------------------ MODULE ServerWorkersProofs ------------------------
(***************************************************************************)
(* Theorems about ServerWorkers, for any number of workers and of          *)
(* connections, and for every way of calling start() and stop().           *)
(***************************************************************************)
EXTENDS ServerWorkers, FiniteSetTheorems, TLAPS

(* A thread past open() that was not told to quit has its database.  The   *)
(* step before the loop is needed too: quit() may come between open() and  *)
(* exec().                                                                 *)
OpenedHasDatabase ==
    fault = "none" =>
        \A w \in Workers :
            thread[w] \in {"opened", "loop"} /\ ~ exited[w] =>
                db[w] \in {"open", "failed"}

(* The type of counter rests on its meaning: a counter that is decreased   *)
(* counts at least the connection that is being destroyed.                 *)
WorkersInv == TypeOK /\ CounterExact /\ OpenedHasDatabase

(* The part of the type that is not about connections.                     *)
ServerTypeOK ==
    /\ listening \in BOOLEAN /\ announced \in {"nothing", "started", "stopped"}
    /\ call \in {"none", "start", "stop", "remove", "delete"}
    /\ next \in 1 .. WorkersNumber + 1
    /\ thread \in [Workers -> {"idle", "configuring", "opening", "opened",
                               "loop", "leaving", "finishing"}]
    /\ exited \in [Workers -> BOOLEAN]
    /\ db \in [Workers -> {"indeterminate", "opening", "open", "failed", "freed"}]
    /\ starts \in 0 .. MaxStarts /\ stops \in 0 .. MaxStops
    /\ fault \in {"none", "wildPointer", "deletedWhileOpening", "doubleDelete",
                  "usedWhileOpening", "usedAfterDelete", "threadDestroyed"}

ConnTypeOK ==
    /\ counter \in [Workers -> Nat]
    /\ conn \in [Connections -> {"absent", "open", "closing", "dying", "destroyed"}]
    /\ home \in [Connections -> Workers]
    /\ closeQueued \subseteq Connections
    /\ reply \in [Connections -> {"none", "served", "refused"}]

(* The two parts together are the type invariant.                          *)
LEMMA TypeParts == TypeOK <=> ServerTypeOK /\ ConnTypeOK
  BY DEF TypeOK, ServerTypeOK, ConnTypeOK

-----------------------------------------------------------------------------
(* Deleting a database connection keeps the types.                         *)
LEMMA DeleteKeepsTypes ==
  ASSUME ServerTypeOK, NEW w \in Workers, DeleteDatabase(w), fault = "none"
  PROVE  /\ db' \in [Workers -> {"indeterminate", "opening", "open", "failed", "freed"}]
         /\ fault' \in {"none", "wildPointer", "deletedWhileOpening", "doubleDelete"}
         /\ \A v \in Workers : v # w => db'[v] = db[v]
  BY DEF ServerTypeOK, DeleteDatabase

(* The steps of the caller and of the main thread's walks.                 *)
LEMMA MainKeepsServer ==
  ASSUME WorkersInv, fault = "none", Operator \/ Main
  PROVE  ServerTypeOK' /\ OpenedHasDatabase'
<1> USE DEF serverVars, workerVars
<1>1. ServerTypeOK /\ OpenedHasDatabase
  BY TypeParts DEF WorkersInv
<1>2. WorkersNumber \in Nat \ {0} /\ MaxStarts \in Nat /\ MaxStops \in Nat
  BY WorkersAssumption, BoundsAssumption
<1>3. CASE Start
  <2>1. starts + 1 \in 0 .. MaxStarts /\ 1 \in 1 .. WorkersNumber + 1
    BY <1>1, <1>2, <1>3 DEF Start, ServerTypeOK
  <2>2. ServerTypeOK'
    BY <1>1, <1>3, <2>1 DEF Start, ServerTypeOK
  <2>3. OpenedHasDatabase'
    BY <1>1, <1>3 DEF Start, OpenedHasDatabase
  <2>4. QED BY <2>2, <2>3
<1>4. CASE Stop
  <2>1. stops + 1 \in 0 .. MaxStops /\ 1 \in 1 .. WorkersNumber + 1
    BY <1>1, <1>2, <1>4 DEF Stop, ServerTypeOK
  <2>2. ServerTypeOK'
    BY <1>1, <1>4, <2>1 DEF Stop, ServerTypeOK
  <2>3. OpenedHasDatabase'
    BY <1>1, <1>4 DEF Stop, OpenedHasDatabase
  <2>4. QED BY <2>2, <2>3
<1>5. CASE Destroy \/ Started \/ Stopped \/ Removed
  <2>1. 1 \in 1 .. WorkersNumber + 1
    BY <1>2
  <2>2. ServerTypeOK'
    BY <1>1, <1>5, <2>1 DEF Destroy, Started, Stopped, Removed, ServerTypeOK
  <2>3. OpenedHasDatabase'
    BY <1>1, <1>5 DEF Destroy, Started, Stopped, Removed, OpenedHasDatabase
  <2>4. QED BY <2>2, <2>3
<1>6. CASE StartWorker
  <2>1. next \in Workers /\ next + 1 \in 1 .. WorkersNumber + 1
    BY <1>1, <1>2, <1>6 DEF StartWorker, Workers
  <2>2. ServerTypeOK'
    BY <1>1, <1>6, <2>1 DEF StartWorker, ServerTypeOK
  <2>3. OpenedHasDatabase'
    BY <1>1, <1>6, <2>1 DEF StartWorker, ServerTypeOK, OpenedHasDatabase
  <2>4. QED BY <2>2, <2>3
<1>7. CASE QuitWorker
  <2>1. next \in Workers /\ next + 1 \in 1 .. WorkersNumber + 1
    BY <1>1, <1>2, <1>7 DEF QuitWorker, Workers
  <2>2. /\ db' \in [Workers -> {"indeterminate", "opening", "open", "failed", "freed"}]
        /\ fault' \in {"none", "wildPointer", "deletedWhileOpening", "doubleDelete"}
        /\ \A v \in Workers : v # next => db'[v] = db[v]
    BY <1>1, <1>7, <2>1, DeleteKeepsTypes DEF QuitWorker
  <2>3. ServerTypeOK'
    BY <1>1, <1>7, <2>1, <2>2 DEF QuitWorker, ServerTypeOK
  <2>4. OpenedHasDatabase'
    BY <1>1, <1>7, <2>1, <2>2 DEF QuitWorker, ServerTypeOK, OpenedHasDatabase
  <2>5. QED BY <2>3, <2>4
<1>8. CASE DeleteWorker
  <2>1. next \in Workers /\ next + 1 \in 1 .. WorkersNumber + 1
    BY <1>1, <1>2, <1>8 DEF DeleteWorker, Workers
  <2>2. /\ db' \in [Workers -> {"indeterminate", "opening", "open", "failed", "freed"}]
        /\ fault' \in {"none", "wildPointer", "deletedWhileOpening", "doubleDelete",
                       "threadDestroyed"}
        /\ \A v \in Workers : v # next => db'[v] = db[v]
        /\ fault' = "none" => thread[next] = "idle"
    BY <1>1, <1>8, <2>1, DeleteKeepsTypes DEF DeleteWorker, ServerTypeOK
  <2>3. ServerTypeOK'
    BY <1>1, <1>8, <2>1, <2>2 DEF DeleteWorker, ServerTypeOK
  <2>4. OpenedHasDatabase'
    BY <1>1, <1>8, <2>1, <2>2 DEF DeleteWorker, OpenedHasDatabase
  <2>5. QED BY <2>3, <2>4
<1>9. QED BY <1>3, <1>4, <1>5, <1>6, <1>7, <1>8 DEF Operator, Main

(* The steps of a worker thread.                                           *)
LEMMA RunKeepsServer ==
  ASSUME WorkersInv, NEW w \in Workers, Run(w)
  PROVE  ServerTypeOK' /\ OpenedHasDatabase'
<1> USE DEF serverVars, mainVars, connVars
<1>1. ServerTypeOK /\ OpenedHasDatabase
  BY TypeParts DEF WorkersInv
<1>2. CASE Configure(w)
  BY <1>1, <1>2 DEF Configure, ServerTypeOK, OpenedHasDatabase
<1>3. CASE Open(w)
  BY <1>1, <1>3 DEF Open, ServerTypeOK, OpenedHasDatabase
<1>4. CASE Exec(w)
  BY <1>1, <1>4 DEF Exec, ServerTypeOK, OpenedHasDatabase
<1>5. CASE LeaveLoop(w)
  BY <1>1, <1>5 DEF LeaveLoop, ServerTypeOK, OpenedHasDatabase
<1>6. CASE Finishing(w)
  BY <1>1, <1>6 DEF Finishing, ServerTypeOK, OpenedHasDatabase
<1>7. CASE Finished(w)
  BY <1>1, <1>7 DEF Finished, ServerTypeOK, OpenedHasDatabase
<1>8. QED BY <1>2, <1>3, <1>4, <1>5, <1>6, <1>7 DEF Run

(* Events and clients leave the server and its workers alone; a query may  *)
(* be a fault.                                                             *)
LEMMA ConnectionsKeepServer ==
  ASSUME WorkersInv, NEW c \in Connections, Client(c) \/ Event(c)
  PROVE  ServerTypeOK' /\ OpenedHasDatabase'
<1>1. ServerTypeOK /\ OpenedHasDatabase
  BY TypeParts DEF WorkersInv
<1>2. /\ UNCHANGED <<serverVars, mainVars, workerVars>>
      /\ fault' \in {fault, "usedWhileOpening", "usedAfterDelete", "wildPointer"}
  BY DEF Client, Event, IncomingConnection, Accept, Query, PeerLeaves, CloseEvent,
         SocketClosed, DeferredDelete
<1>3. QED
  BY <1>1, <1>2 DEF serverVars, mainVars, workerVars, ServerTypeOK, OpenedHasDatabase

-----------------------------------------------------------------------------
(* What the counters count.                                                *)
LEMMA ConnectionsFinite ==
  \A w \in Workers : IsFiniteSet(ConnectionsOf(w))
<1>1. \A w \in Workers : ConnectionsOf(w) \subseteq Connections
  BY DEF ConnectionsOf
<1>2. QED BY <1>1, ConnectionsAssumption, FS_Subset

(* A step that changes neither counters nor owners and lets every object   *)
(* live or not as before leaves the counters exact.                        *)
LEMMA SameConnections ==
  ASSUME CounterExact, counter' = counter, home' = home,
         \A c \in Connections : Alive(c)' <=> Alive(c)
  PROVE  CounterExact'
<1>1. \A w \in Workers : ConnectionsOf(w)' = ConnectionsOf(w)
  BY DEF ConnectionsOf
<1>2. QED BY <1>1 DEF CounterExact

(* Accepting, ending and destroying connections keep the counters exact.   *)
LEMMA ConnectionsKeepCounters ==
  ASSUME WorkersInv, NEW c \in Connections, Client(c) \/ Event(c)
  PROVE  ConnTypeOK' /\ CounterExact'
<1>1. ConnTypeOK /\ CounterExact
  BY TypeParts DEF WorkersInv
<1>2. CASE IncomingConnection(c)
  <2>1. PICK w \in Workers : Accept(c, w)
    BY <1>2 DEF IncomingConnection
  <2>2. /\ conn[c] = "absent" /\ conn' = [conn EXCEPT ![c] = "open"]
        /\ home' = [home EXCEPT ![c] = w]
        /\ counter' = [counter EXCEPT ![w] = @ + 1]
        /\ closeQueued' = closeQueued /\ reply' = reply
    BY <2>1 DEF Accept
  <2>3. ConnTypeOK'
    BY <1>1, <2>2 DEF ConnTypeOK
  <2>4. \A d \in Connections : conn'[d] = IF d = c THEN "open" ELSE conn[d]
    BY <1>1, <2>2 DEF ConnTypeOK
  <2>5. \A d \in Connections : home'[d] = IF d = c THEN w ELSE home[d]
    BY <1>1, <2>2 DEF ConnTypeOK
  <2>6. /\ c \notin ConnectionsOf(w)
        /\ ConnectionsOf(w)' = ConnectionsOf(w) \cup {c}
    BY <2>2, <2>4, <2>5 DEF ConnectionsOf, Alive
  <2>7. \A v \in Workers : v # w => ConnectionsOf(v)' = ConnectionsOf(v)
    BY <2>2, <2>4, <2>5 DEF ConnectionsOf, Alive
  <2>8. Cardinality(ConnectionsOf(w)') = Cardinality(ConnectionsOf(w)) + 1
    BY <2>6, ConnectionsFinite, FS_AddElement
  <2>9. ASSUME NEW v \in Workers
        PROVE  counter'[v] = Cardinality(ConnectionsOf(v)')
    <3>1. counter[v] = Cardinality(ConnectionsOf(v))
      BY <1>1 DEF CounterExact
    <3>2. counter'[v] = IF v = w THEN counter[v] + 1 ELSE counter[v]
      BY <1>1, <2>2 DEF ConnTypeOK
    <3>3. QED BY <2>7, <2>8, <3>1, <3>2
  <2>10. QED BY <2>3, <2>9 DEF CounterExact
<1>3. CASE DeferredDelete(c)
  <2>1. PICK w \in Workers : w = home[c]
    BY <1>1 DEF ConnTypeOK
  <2>2. /\ conn[c] = "dying" /\ conn' = [conn EXCEPT ![c] = "destroyed"]
        /\ counter' = [counter EXCEPT ![w] = @ - 1]
        /\ closeQueued' = closeQueued \ {c}
        /\ home' = home /\ reply' = reply
    BY <1>3, <2>1 DEF DeferredDelete
  <2>3. /\ c \in ConnectionsOf(w)
        /\ ConnectionsOf(w)' = ConnectionsOf(w) \ {c}
        /\ \A v \in Workers : v # w => ConnectionsOf(v)' = ConnectionsOf(v)
    BY <1>1, <2>1, <2>2 DEF ConnTypeOK, ConnectionsOf, Alive
  <2>4. /\ Cardinality(ConnectionsOf(w)') = Cardinality(ConnectionsOf(w)) - 1
        /\ IsFiniteSet(ConnectionsOf(w)')
    BY <2>1, <2>3, ConnectionsFinite, FS_RemoveElement
  <2>5. /\ Cardinality(ConnectionsOf(w)') \in Nat
        /\ counter[w] = Cardinality(ConnectionsOf(w))
        /\ counter[w] \in Nat
    BY <1>1, <2>1, <2>4, FS_CardinalityType DEF ConnTypeOK, CounterExact
  <2>6. counter[w] - 1 \in Nat
    BY <2>4, <2>5
  <2>7. ConnTypeOK'
    BY <1>1, <2>1, <2>2, <2>6 DEF ConnTypeOK
  <2>8. ASSUME NEW v \in Workers
        PROVE  counter'[v] = Cardinality(ConnectionsOf(v)')
    <3>1. counter[v] = Cardinality(ConnectionsOf(v))
      BY <1>1 DEF CounterExact
    <3>2. counter'[v] = IF v = w THEN counter[v] - 1 ELSE counter[v]
      BY <1>1, <2>2 DEF ConnTypeOK
    <3>3. CASE v = w
      BY <2>4, <3>1, <3>2, <3>3
    <3>4. CASE v # w
      BY <2>3, <3>1, <3>2, <3>4
    <3>5. QED BY <3>3, <3>4
  <2>9. QED BY <2>7, <2>8 DEF CounterExact
<1>4. CASE Query(c) \/ PeerLeaves(c) \/ CloseEvent(c) \/ SocketClosed(c)
  <2>1. counter' = counter /\ home' = home
    BY <1>4 DEF Query, PeerLeaves, CloseEvent, SocketClosed
  <2>2. ConnTypeOK'
    BY <1>1, <1>4 DEF Query, PeerLeaves, CloseEvent, SocketClosed, ConnTypeOK
  <2>3. \A d \in Connections : Alive(d)' <=> Alive(d)
    BY <1>1, <1>4 DEF Query, PeerLeaves, CloseEvent, SocketClosed, ConnTypeOK, Alive
  <2>4. QED BY <1>1, <2>1, <2>2, <2>3, SameConnections
<1>5. QED BY <1>2, <1>3, <1>4 DEF Client, Event

(* So do the steps of the server and of its threads, which create and      *)
(* destroy no connection.                                                  *)
LEMMA OthersKeepCounters ==
  ASSUME WorkersInv,
         Operator \/ Main \/ \E w \in Workers : Run(w)
  PROVE  ConnTypeOK' /\ CounterExact'
<1>1. ConnTypeOK /\ CounterExact
  BY TypeParts DEF WorkersInv
<1>2. /\ counter' = counter /\ conn' = conn /\ home' = home /\ reply' = reply
      /\ closeQueued' = closeQueued
           \/ \E w \in Workers : closeQueued' = closeQueued \cup ConnectionsOf(w)
  <2> USE DEF connVars
  <2>1. CASE Operator
    BY <2>1 DEF Operator, Start, Stop, Destroy
  <2>2. CASE Main
    BY <2>2 DEF Main, StartWorker, Started, QuitWorker, Stopped, Removed, DeleteWorker
  <2>3. ASSUME NEW w \in Workers, Run(w)
        PROVE  /\ counter' = counter /\ conn' = conn /\ home' = home /\ reply' = reply
               /\ \/ closeQueued' = closeQueued
                  \/ closeQueued' = closeQueued \cup ConnectionsOf(w)
    BY <2>3 DEF Run, Configure, Open, Exec, LeaveLoop, Finishing, Finished
  <2>4. QED BY <2>1, <2>2, <2>3
<1>3. closeQueued' \subseteq Connections
  BY <1>1, <1>2 DEF ConnTypeOK, ConnectionsOf
<1>4. ConnTypeOK'
  BY <1>1, <1>2, <1>3 DEF ConnTypeOK
<1>5. CounterExact'
  BY <1>1, <1>2, SameConnections DEF Alive
<1>6. QED BY <1>4, <1>5

-----------------------------------------------------------------------------
(* The three facts hold in every state, for every number of workers and of *)
(* clients and however the caller behaves.                                 *)
THEOREM WorkersInvariant == Spec => []WorkersInv
<1>1. Init => WorkersInv
  <2> SUFFICES ASSUME Init PROVE WorkersInv
    OBVIOUS
  <2>1. 1 \in Workers /\ 1 \in 1 .. WorkersNumber + 1
    BY WorkersAssumption DEF Workers
  <2>2. ServerTypeOK
    <3>1. starts \in 0 .. MaxStarts /\ stops \in 0 .. MaxStops
      BY BoundsAssumption DEF Init
    <3>2. /\ thread \in [Workers -> {"idle", "configuring", "opening", "opened",
                                     "loop", "leaving", "finishing"}]
          /\ exited \in [Workers -> BOOLEAN]
          /\ db \in [Workers -> {"indeterminate", "opening", "open", "failed", "freed"}]
      BY DEF Init
    <3>3. QED BY <2>1, <3>1, <3>2 DEF Init, ServerTypeOK
  <2>3. ConnTypeOK
    <3>1. counter \in [Workers -> Nat] /\ closeQueued \subseteq Connections
      BY DEF Init
    <3>2. /\ conn \in [Connections -> {"absent", "open", "closing", "dying", "destroyed"}]
          /\ reply \in [Connections -> {"none", "served", "refused"}]
      BY DEF Init
    <3>3. home \in [Connections -> Workers]
      BY <2>1 DEF Init
    <3>4. QED BY <3>1, <3>2, <3>3 DEF ConnTypeOK
  <2>4. \A w \in Workers : ConnectionsOf(w) = {}
    BY DEF Init, ConnectionsOf, Alive
  <2>5. CounterExact
    BY <2>4, FS_EmptySet DEF Init, CounterExact
  <2>6. OpenedHasDatabase
    BY DEF Init, OpenedHasDatabase
  <2>7. QED BY <2>2, <2>3, <2>5, <2>6, TypeParts DEF WorkersInv
<1>2. WorkersInv /\ [Next]_vars => WorkersInv'
  <2> SUFFICES ASSUME WorkersInv, [Next]_vars PROVE WorkersInv'
    OBVIOUS
  <2>1. CASE Next
    <3>1. ServerTypeOK' /\ OpenedHasDatabase'
      BY <2>1, MainKeepsServer, RunKeepsServer, ConnectionsKeepServer DEF Next
    <3>2. ConnTypeOK' /\ CounterExact'
      BY <2>1, OthersKeepCounters, ConnectionsKeepCounters DEF Next
    <3>3. QED
      BY <3>1, <3>2 DEF WorkersInv, TypeOK, ServerTypeOK, ConnTypeOK
  <2>2. CASE UNCHANGED vars
    <3>1. ServerTypeOK /\ ConnTypeOK /\ CounterExact /\ OpenedHasDatabase
      BY TypeParts DEF WorkersInv
    <3>2. ServerTypeOK' /\ ConnTypeOK' /\ OpenedHasDatabase'
      BY <2>2, <3>1 DEF vars, serverVars, mainVars, workerVars, connVars,
                        ServerTypeOK, ConnTypeOK, OpenedHasDatabase
    <3>3. CounterExact'
      BY <2>2, <3>1, SameConnections DEF vars, connVars, Alive
    <3>4. QED
      BY <3>2, <3>3 DEF WorkersInv, TypeOK, ServerTypeOK, ConnTypeOK
  <2>3. QED BY <2>1, <2>2
<1>3. QED BY <1>1, <1>2, PTL DEF Spec

(* Every variable has its type; that a counter never goes below zero, as   *)
(* an unsigned counter must not, needs CounterExact.                       *)
THEOREM WorkersTypeCorrect == Spec => []TypeOK
<1>1. WorkersInv => TypeOK
  BY DEF WorkersInv
<1>2. QED BY <1>1, WorkersInvariant, PTL

(* The balancing goes by true numbers.                                     *)
THEOREM CountersExact == Spec => []CounterExact
<1>1. WorkersInv => CounterExact
  BY DEF WorkersInv
<1>2. QED BY <1>1, WorkersInvariant, PTL

(* A worker in its loop has a live database connection.                    *)
THEOREM ServingHasDatabase == Spec => []ServingWorkerHasDatabase
<1>1. WorkersInv => ServingWorkerHasDatabase
  BY DEF WorkersInv, OpenedHasDatabase, ServingWorkerHasDatabase, Serving
<1>2. QED BY <1>1, WorkersInvariant, PTL

-----------------------------------------------------------------------------
(* Balance.  A destroyed connection stays destroyed, so that as long as    *)
(* there is none the counters have only grown, each time the lowest.       *)
LEMMA NothingRevives ==
  ASSUME WorkersInv, [Next]_vars
  PROVE  \A c \in Connections : conn[c] = "destroyed" => conn'[c] = "destroyed"
<1>1. conn \in [Connections -> {"absent", "open", "closing", "dying", "destroyed"}]
  BY DEF WorkersInv, TypeOK
<1>2. CASE UNCHANGED conn
  BY <1>2
<1>3. ASSUME NEW c \in Connections, Client(c) \/ Event(c)
      PROVE  \A d \in Connections : conn[d] = "destroyed" => conn'[d] = "destroyed"
  BY <1>1, <1>3
     DEF Client, Event, IncomingConnection, Accept, Query, PeerLeaves, CloseEvent,
         SocketClosed, DeferredDelete
<1>4. CASE Operator \/ Main \/ \E w \in Workers : Run(w)
  <2> USE DEF connVars
  <2>1. CASE Operator
    BY <1>2, <2>1 DEF Operator, Start, Stop, Destroy
  <2>2. CASE Main
    BY <1>2, <2>2
       DEF Main, StartWorker, Started, QuitWorker, Stopped, Removed, DeleteWorker
  <2>3. ASSUME NEW w \in Workers, Run(w) PROVE UNCHANGED conn
    BY <2>3 DEF Run, Configure, Open, Exec, LeaveLoop, Finishing, Finished
  <2>4. QED BY <1>2, <1>4, <2>1, <2>2, <2>3
<1>5. QED BY <1>2, <1>3, <1>4 DEF Next, vars, connVars

(* A step changes the counters by accepting a connection or by destroying  *)
(* one.                                                                    *)
LEMMA CountersMove ==
  ASSUME [Next]_vars
  PROVE  \/ counter' = counter
         \/ \E c \in Connections, w \in Workers : LeastLoaded(w) /\ Accept(c, w)
         \/ \E c \in Connections : DeferredDelete(c)
<1>1. ASSUME NEW c \in Connections, Client(c) \/ Event(c)
      PROVE  \/ counter' = counter
             \/ \E w \in Workers : LeastLoaded(w) /\ Accept(c, w)
             \/ DeferredDelete(c)
  BY <1>1
     DEF Client, Event, IncomingConnection, Query, PeerLeaves, CloseEvent, SocketClosed
<1>2. CASE Operator
  BY <1>2 DEF Operator, Start, Stop, Destroy, connVars
<1>3. CASE Main
  BY <1>3 DEF Main, StartWorker, Started, QuitWorker, Stopped, Removed, DeleteWorker,
              connVars
<1>4. ASSUME NEW w \in Workers, Run(w) PROVE counter' = counter
  BY <1>4 DEF Run, Configure, Open, Exec, LeaveLoop, Finishing, Finished, connVars
<1>5. CASE UNCHANGED vars
  BY <1>5 DEF vars, connVars
<1>6. QED BY <1>1, <1>2, <1>3, <1>4, <1>5 DEF Next

(* As long as no client has left, no worker has more than one connection   *)
(* above another, however clients come and however the server is started   *)
(* and stopped meanwhile (multithread_tcp_server.cpp:89-103).              *)
THEOREM WorkersBalanced == Spec => []Balanced
<1>1. Init => Balanced
  BY DEF Init, Balanced
<1>2. WorkersInv /\ Balanced /\ [Next]_vars => Balanced'
  <2> SUFFICES ASSUME WorkersInv, Balanced, [Next]_vars,
                      \A c \in Connections : conn'[c] # "destroyed"
               PROVE  \A w, v \in Workers : counter'[w] <= counter'[v] + 1
    BY DEF Balanced
  <2>1. /\ counter \in [Workers -> Nat]
        /\ conn \in [Connections -> {"absent", "open", "closing", "dying", "destroyed"}]
    BY DEF WorkersInv, TypeOK
  <2>2. \A w, v \in Workers : counter[w] <= counter[v] + 1
    BY NothingRevives DEF Balanced
  <2>3. CASE counter' = counter
    BY <2>2, <2>3
  <2>4. ASSUME NEW c \in Connections, NEW u \in Workers, LeastLoaded(u), Accept(c, u)
        PROVE  \A w, v \in Workers : counter'[w] <= counter'[v] + 1
    <3>1. /\ \A v \in Workers : counter[u] <= counter[v]
          /\ counter' = [counter EXCEPT ![u] = counter[u] + 1]
      BY <2>4 DEF LeastLoaded, Accept
    <3>2. \A w \in Workers : /\ counter[w] \in Nat
                             /\ counter'[w] = IF w = u THEN counter[w] + 1 ELSE counter[w]
      BY <2>1, <3>1
    <3>3. QED BY <2>2, <3>1, <3>2
  <2>5. ASSUME NEW c \in Connections, DeferredDelete(c)
        PROVE  FALSE
    BY <2>1, <2>5 DEF DeferredDelete
  <2>6. QED BY <2>3, <2>4, <2>5, CountersMove
<1>3. QED BY <1>1, <1>2, WorkersInvariant, PTL DEF Spec
=============================================================================
