# BesMesServer in TLA+

A verification development of the BesMes messenger server (Qt, C++; sources in
`app/src/`): TLA+ modules translated from the code, TLC configurations that check
them on small instances, and TLAPS proofs of the properties that matter most.
Paths below are relative to the repository root.

Contents: 1 the system · 2 modules and the code · 3 runs · 4 bounds · 5 fairness ·
6 proofs · 7 findings · 8 not modelled · 9 plan · 10 how to run.

## 1. The system

A client connects over TLS, sends JSON objects and gets a JSON object in answer to
each. The server keeps no data of its own: every query becomes one or several
calls of SQL functions.

    QTcpServer ──incomingConnection──▶ ServerWorker (one of N) ──▶ DatabaseConnection
                                          ▲    │ run() in its QThread: make, open, loop
    start()/stop()/~server ─started/stopped    │
                                          ClientConnection ◀── readyRead / disconnected

| component | state it keeps | operations | interacts with |
|---|---|---|---|
| `MultithreadTcpServer` | is it listening; list of workers | `start`, `stop`, `incomingConnection`, `initWorkers`, `removeWorkers`, destructor | signals `started`, `stopped`; calls `ServerWorker` |
| `ServerWorker` (a `QThread`) | thread state, `databaseConnection` pointer, counter of connections | `run`, `quit`, `addClientConnection`, `decreaseHandlingConnectionsCounter`, `synchronize`, pass-through of queries | its `finished` signal closes its connections |
| `ClientConnection` | socket, `user`, and **one function-static string shared by all instances** | `receiveIncomingMessage`, `processIncomingMessage`, `processQuery`, `sendResponse`, `close`, destructor | signals of its socket; calls its worker |
| `DatabaseConnection` | a `QSqlDatabase` | one method per SQL function; `open`, destructor | PostgreSQL functions that are not in the repository |
| `ProjectStructureDefender` | – (directories and configuration file on the disk) | `init` | file system, at every start of the program |
| `ConfigReader` | the configuration table, one for the process | `getInstance`, `readConfigs`, `value` | read by `start`, by each worker's `run`, by the TLS set-up |
| TLS set-up | a static `QSslConfiguration` | `initSslConfiguration`, at the start and at the end of each `stop` | key and certificate files |
| `User`, `Chat`, `Message` | plain records | – | – |

### Which thread runs what

This decides what can interleave with what, and is easy to misread. A slot of a
`QObject` runs in the thread the object was created in. `ServerWorker` objects are
made by `initWorkers()` and `ClientConnection` objects by `incomingConnection()`
(`addClientConnection`, `server_worker.cpp:40-55`), both in the main thread. So
**every query of every client, its SQL included, runs in the main thread**; a worker
thread only runs `ServerWorker::run()`: it makes the database connection, opens it,
and sits in an event loop that owns no objects. Slots of different connections
therefore interleave but never overlap, while the steps of the worker threads do
overlap with `start()`, `stop()`, the destructor and the queries.

### What is hard here, and what would be correct

| where | hard | correct means |
|---|---|---|
| message assembly | TCP cuts messages anywhere and joins them; clients come and go; all share one string | what is processed for a client is its own, whole, in order, once; what is read in full is processed |
| workers | `start`/`stop`/destructor overtake threads still starting or finishing; a pointer written by one thread and used by another; queued `close()` events against peers that leave by themselves | a serving worker has a database; counters stay exact; a stop closes everything; a start makes everyone serve; no deleted object is used |
| start-up | the program may be killed between any two steps; the operator edits and replaces files meanwhile; settings are looked up at different times by different threads | a start makes what is missing; nothing of the operator's is overwritten; one version of the settings is in use; key and certificate belong together |
| synchronisation over time | a client remembers one time, cut to whole seconds, for all its chats; answers get lost; a statement that fails looks like a chat with nothing to read | nothing is passed over that no statement failed for; nothing but the last second is repeated |
| the whole | a stop finds queries and messages on their way; worker threads go on while a slot runs; the shared string outlives connections and restarts | an answer finds its connection open; clients and operators who take turns are served |
| queries | one query is several statements; statements fail and their failure reads as 0, false or no rows, or never return | addresses are unique, identities proven, answers name what exists, a synchronisation is one snapshot, every query is answered |

`PROJECT.json` lists these hazards one by one at the line where each bites, with the
properties that watch it, or with the reason why none does: several of them are things the
code simply does, which no property that holds can deny.

## 2. Modules and the code

| module | models |
|---|---|
| `RequestChannel` | abstract: what a client may expect of its connection – messages handed over one by one, in order, until it leaves |
| `MessageAssembly` | `client_connection.cpp:84-106, 227-235` and the network below the socket |
| `ServerWorkers` | `multithread_tcp_server.cpp`, life cycle parts of `server_worker.cpp`, `client_connection.cpp` and `database_connection.cpp` |
| `Server` | the composition of `MessageAssembly` and `ServerWorkers` in the main thread's event loop |
| `QueryService` | abstract: a query takes effect at one moment, all or nothing, and is answered once |
| `QueryProcessing` | `client_connection.cpp:78-225`, `server_worker.cpp:77-143`, `database_connection.cpp:61-271` |
| `CatchUp` | synchronisation again and again: `client_connection.cpp:196-220`, `server_worker.cpp:131-143`, `database_connection.cpp:215-271`, with times and failing statements |
| `Startup` | `main.cpp`, `project_structure_defender.cpp`, `config_reader.cpp`, `initSslConfiguration`, what `start`, `stop` and `run` take from the settings |
| `MC…` | symmetry sets, the sets of cuts and the query sets of the runs |
| `…Proofs` | theorems and proofs about the module they extend; `QueryServiceProofs` extends `QueryProcessingProofs` and proves that it implements `QueryService` |

How they fit: `Startup` ends where `start()` begins to walk over the workers, which is
`ServerWorkers`. Assembly ends by returning a document, on which a query starts; a query
uses the database connection whose life the workers module follows. `Server` puts these
together. What a query does to the *data* stays in `QueryProcessing`, where a statement may
fail (a database that never opened) or never return: the two meet only in whether a
statement works, so multiplying their states would show nothing new.

### MessageAssembly

`clientMessage` is the static string, `stream[c]` the bytes between a client and its
`readAll()`, `returned[c]` the documents given to `processQuery`. `ProcessIncomingMessage(c)`
is the whole slot: read any number of pieces that have arrived, convert them
(`FromUtf8`), append, try to parse (`IsDocument`), and either return the text and empty
the string or keep it. `Fragments` is the network: a message is cut nowhere or in one place,
into a head and a tail. To a parser, a cut is what the head ends in and what the tail starts
with. `Adjacent` lists these pairs for a flat object of words and numbers, which is what every
client message of the protocol is: at the brace, inside or after a word, around a colon, a
number, a comma, before the last brace. Two more facts of a cut matter: is the tail free of
quotation marks (`plain`), and is a character split (`splits`)?

Two things are modelled by what they do, since properties depend on them:
`QString::fromUtf8` of half a character gives replacement characters, on both sides; and
`QJsonDocument::fromJson` accepts exactly one object, whoever wrote its pieces. The second has
interesting cases, for the string is shared. A head that ends after a comma is completed by any
tail that starts after one (`Fits`): `{"k":"v",` of one client and `"l":"w"}` of another are a
document with the words of both. So is a tail that follows any head cut at a brace, a colon or
a value. Inside an open word whatever has no quotation mark is more letters: another client's
bare `{`, or a tail `}` (`OpensWord`, `Quoteless`). And a head that ends in a colon takes
another client's whole message for its value (`AwaitsValue`, `GoesOn`). `CanComplete` is the
counterpart: the texts that some continuation makes a document.

What a reader can rely on in spite of all that is `ReturnedWhole`: a document none of whose
pieces ends where any tail goes on (`Loose`) is one message of its client. The mixing itself is
the run `assembly_joined`. The channel is stricter: `Handed` counts a document as a message only
if it is the client's own text character for character (`SameText`), so a message spoilt in a
character is not handed over.

### ServerWorkers

The main thread executes one call at a time (`call`, and `next`, the worker it has come
to), so `start()`, `stop()` and `removeWorkers()` are walks with one step per worker,
between which the threads go on. `thread[w]` goes
`idle → configuring → opening → opened → loop → leaving → finishing → idle`; `exited` is
QThread's own flag, which `exec()` and `quit()` use. `db[w]` is what the pointer refers
to: `indeterminate` memory (no constructor sets it), an object being opened, open,
failed to open, or freed. A use of anything but an open or failed object is recorded in
`fault`, and the model stops there: nothing can be said after undefined behaviour.
The guard of `Next` is that alone. Deleting an unset pointer may go well (null) or not; both are behaviours.

`Orderly` and `Patient` describe the caller and the clients: does the caller wait until
the threads have settled, do clients ask only while their worker serves? The code asks
neither; they are there to show what holds under which discipline.
`listen()` and `open()` may fail at any time. `stop()` is public and called by nobody in
the repository, the destructor at the end of `main`: both are modelled as calls a user of
the class may make.

### Server

Two instances, `W == INSTANCE ServerWorkers` and `A == INSTANCE MessageAssembly`, share the
connections: to the assembly a connection is open exactly while its socket is
(`phase <- …conn…`). `ProcessIncomingMessage(c)` reads and parses as in `A`; when a document
comes out, the same slot goes on to the first statement of its query (`W!Query(c)`) and is
then in `slot`, until `EndQuery(c)`, the last statement. While `slot` is taken the main thread
does nothing else (`Idle`); the worker threads (`Run`) do. A socket that is closed drops
what it had not read (`CloseEvent`).

The code promises little to an operator who stops the server under load, and section 7
has the runs that show it. What it promises to those who *take turns* is the other half, and harder to
see. Nothing keeps the operator and the clients from acting at any time. `InTurn` counts, in
`unruly`, each act that is out of turn: a message while others are on their way or before the
workers serve, a stop under load, a start while threads of the last stop are still leaving, a
client that goes away with something unread. Properties about disciplined behaviour have the premise
`unruly = 0`; the others hold regardless. A behaviour is followed (`Followed`) until a fault,
and until its first act out of turn beyond `MaxUnruly`, that act included.

### QueryProcessing and QueryService

One SQL statement is one step; `job[t]` is the query a thread executes, with the local
variables of the C++ call. `Outcome` is what the code gets from a statement: its
value; or none, the statement having had its effect (the connection broke afterwards) or
not. `done` in a reply is a history flag: was every statement carried out as asked?
`proven` is another: the accounts whose password a connection has given.
A statement may also never return (`Hang`, at workers whose database is in `Hanging`): `exec()`
has no time limit, and the slot then never ends.
`SlotThread(c)` is `"main"` for every `c`. It is an operator of its own because the
properties of the module rest on it: moved to the worker threads (what the class names
suggest), registration and synchronisation would race – the mutants do exactly that.

The SQL functions are external. They are modelled from how the code uses them, and
deliberately weak: the database does *not* refuse a second account for an
address, so that `EmailUnique` is a property of the server. Users, chats and messages are numbered; a message's
number stands for its sending time. `user.userId` is not initialised in the code: `Init`
lets it hold any of `StaleIds`.

`QueryService` says what all this is for. There a query is executed in one step, `Execute(c)`, on
the database as it is then, and delivered in another. The refinement mapping of
`QueryProcessing` (`Service`) keeps the database, `userId` and the clients' variables and
lets `outcome[c]` be the answer of a job of `c` that has come to its last step (`Pending`): a query takes
effect with the statement that completes it. Statements before that change nothing a client could
see – and a failure on the way is a step of its own (`Falter`). What a failure
may do is spelled out query by query: a registration that is carried out and reported as
refused, a login that leaves the connection acting for nobody, a synchronisation that is a
part of the snapshot.

### CatchUp

A client asks for everything after the last second it was told (`since[c]`), again and
again; answers get lost, members come and go, messages are sent between. Times are
ticks, `TicksPerSecond` to the second; `ToSecsSinceEpoch` cuts them. How the SQL functions
compare a stamp with a whole second is not in the repository. `compare` therefore has two
values and stays what it is: with `"exact"` nothing is missed and messages of the last
second come twice; with `"seconds"` none comes twice and one of the same second as the last synchronisation may be passed over. That
is why `NothingMissed` has a premise. The database stamps messages in the order it stores them: one statement at a time, from one thread.

Each statement of a synchronisation may fail (`Failing`), up to `MaxFailures` times. The code does not
notice: the chat is left out and the answer goes out with code 0. If another chat of the same answer
has a later message, `since[c]` moves past what was left out, for ever. `skipped[c]` records the
messages an answer left out that way; they are what `NothingMissed` excepts, and nothing else is.

### Startup

Each step of `main()` up to the event loop is an action: two `mkdir`s, the look for a
configuration file, the copy of the template, the first read of the configuration, key, certificate,
`listen()`. `Crash` may come before any of them and forgets what is in memory; the operator
edits, deletes and replaces between any two. Each worker thread takes its database settings
when it gets there, `stop()` loads key and certificate again. Files are versions and kinds:
`"good"`, `"badPort"` (a number that is none of 16 bits), `"broken"` (not TOML).
Two consequences a reader of the configuration should know: an edit has no effect before
the *process* restarts, whatever is stopped and started (`SettingsAreOneVersion`; TLS files do
take effect at a stop); and a file that cannot be read gives port 0, on which the system
chooses one, not an error.

## 3. Runs

Passing runs:

| run | shows |
|---|---|
| `assembly_any` | two pipelining clients, cuts of six kinds (inside a word, through a character, at a brace, after a comma, before a value, before the last brace): documents come in order and once (`InOrder`), each is one message of its client unless a piece of it ends where any tail goes on (`ReturnedWhole`), and a spoilt string stays spoilt for ever (`DeafnessIsPermanent`) |
| `assembly_single` | one client that waits for its message to be taken, cuts between any two characters: `ImplementsChannel`, with liveness, and `ReadMessageIsReturned` |
| `workers_any` | any caller, any clients, destruction: `ServingWorkerHasDatabase`, `CounterExact`, `Balanced` |
| `server` | everything in the main thread together: an answer finds its connection open (`AnswersGoToOpenConnections`); with turns taken no query uses a database that is not there (`NoFault`), every message is processed (`ReadMessageIsReturned`, `EveryMessageProcessed`), the server is the abstract channel to each client (`ServesAsChannel`), a stop closes every connection and a start makes every worker serve (`StopClosesConnections`, `StartRunsWorkers`) |
| `queries_all` | every query and statement, two failures, two addresses, a right and a wrong password: `EmailUnique`, `IdentityIsProven`, `RepliesAreReal`, and that all of it is one step at a time (`ImplementsService`) |
| `queries_live` | queries of one, two and many statements and an unknown one, two chats, a failure, a database of one of the two workers that may hang: `QueriesAnswered`, `HangingStopsAll`, `SyncIsSnapshot` |
| `catch_up` | two clients, two chats, two ticks to the second, lost answers, a failing statement: `NothingMissed`, `RepeatsAreOfTheLastSecond` |
| `startup` | starts cut off anywhere, an operator at work: `UndisturbedStart`, `SettingsAreOneVersion`, `TlsIsOnDisk`, `OwnerEditsKept`, `ComesToRest` |

`assembly_single` says when the assembly works: one client at a time that does not
pipeline. `assembly_interleaved` and `assembly_joined` show that the first condition cannot be
dropped; section 7 says how to see it of the second. A character that is split is excepted from
`ImplementsChannel`, and rightly: such a message is handed over spoilt.

What the premises leave out is named rather than hidden. `NoFault` and `StartRunsWorkers` are about
callers and clients in turn: a query before `open()` is done and a `start()` that overtakes
the threads of the last stop are transitions of the models, and section 7 lists them.
`QueriesAnswered` is about the ten queries that have a branch, and says "answered, or some
statement hangs"; `HangingStopsAll` says what that means for everybody else.

Violation runs, each checking something the repository says of itself: section 7.

`SyncIsSnapshot` says more than `ImplementsService`: without failures a synchronisation is the snapshot at the moment
of its *answer*, not at some moment.

Deadlock is not checked anywhere: clients may stop asking, nobody must start the
server, and the bounds run out, so that every model may come to rest.

## 4. Bounds

| bound | value | why it is enough |
|---|---|---|
| `Connections` | 2 | sharing needs two; a third reader only repeats the second |
| `MaxMessages` | 2 (3 for the single client) | the second message meets what the first left behind; after a return the string is empty again, so a third starts like the first |
| `Cuts` | six kinds in `assembly_any`, all that split no character in `assembly_single` | one of each way for a piece to be joined with a piece of another message; the theorems have no such choice |
| one cut per message | – | a second cut inside a word leaves the parser where the first did; between tokens it makes more of the joins that `ReturnedWhole` excepts already |
| `WorkersNumber` | 2 | one worker ahead of another in a walk of the main thread; two clients on one of them while the other has none |
| `MaxStarts`, `MaxStops` | 2 each (2 and 1 in `server`) | a restart, and a stop of what was restarted |
| `MaxUnruly` (`server`) | 0 | behaviours in turn, up to and with the first act out of turn; all but one of the properties are about those, and `AnswersGoToOpenConnections` is a theorem for any bound |
| `MaxMessages`, `Cuts` in `server` | 1 per client, cut inside a word | the second client is served after the restart; other cuts are the assembly runs' |
| `TicksPerSecond`, `MaxTime` | 2, 4 ticks | the ticks 1 to 4 lie in three seconds, of which one holds two |
| `MaxMessages`, `MaxChanges`, `MaxFailures` (`CatchUp`) | 3, 1, 1 | one before, one during the same second as, and one after a synchronisation; one invitation or kick; one step of a synchronisation in which statements fail, with a chat that is answered beside it |
| `Workers`, `Pairs`, `MaxEdits` (`Startup`) | 2, 2, 3 | settings of two threads; an old and a new pair; replacing a pair takes two acts, one more to interfere |
| `MaxQueries` | 2 per client with every query, 3 for the synchronisation | a registration, a login, a chat and a message against the same by another client; account, two chats, a message in each and the synchronisation make six |
| `MaxFailures` | 1 or 2 | one failure, and one after it |
| `Hanging` | one of two workers (`queries_live`), none in `queries_all` | the clients of the other worker show whether they are affected; a hung slot takes no further step, so for safety it adds nothing to a slot that has not come further |

The proofs need none of these bounds: they hold for every value of the constants.
Symmetry is used only in runs without liveness, over clients that are alike.
`queries_all` and `queries_live` have two clients of two different workers, so that a
difference between sharing and not sharing a thread would show.

## 5. Fairness

* `MessageAssembly`: weak fairness of each connection's `ProcessIncomingMessage` – Qt's
  event loop delivers `readyRead` for data that has arrived. Clients owe nothing.
* `Server`: weak fairness of the main thread's current call, of each worker thread, of each
  connection's slot (a slot that has begun goes on to its end; data that has arrived is delivered), and of each
  queued event (close, socket closed, deferred delete): the operating system runs the
  threads, `open()` and statements return, the loop empties its queue. Nothing says that anyone calls `start()` or
  `stop()`, or that a client acts. Weak fairness of a slot is enough although another slot disables it:
  without a new message a client's turn comes, since each of the finitely many others ends.
  All of it as long as the behaviour is followed (`Followed`): no fault, and no act
  out of turn beyond the bound; every liveness property ends there by its own words (`unruly # 0`).
  `ServerWorkers` itself is only checked for safety.
* `Startup`: weak fairness of the main thread and of each worker's `ConfigureDatabaseConnection`. Nobody has to
  boot, stop or crash it.
* `QueryProcessing`: weak fairness of each thread's slot – a statement returns unless it
  hangs (`Hang`), which it may do or not; from then on the slot has no step to take. Strong fairness of `ProcessQuery(c)`: the main
  thread's loop comes to every pending `readyRead`, but it is disabled while another slot
  runs, so weak fairness would let one client be overtaken for ever; the loop serves its
  sources in turn.

## 6. Proofs

All proofs are checked by tlapm to the last leaf, for arbitrary sets of connections,
numbers of workers, queries, bounds and failures, from the named assumptions in the
modules (types of the constants, finiteness of `Connections` in `ServerWorkers`, `NoOne` being no
connection in `Server`) and nothing else.

**MessageAssemblyProofs.** All for any set of cuts out of `AllCuts`.
* `DeafForever` (`DeafnessIsPermanent`): what is added behind a text that cannot become a
  document leaves it such a text (`NoRepair`), and only a parse empties the string. Needs no
  invariant but typing.
* `ProcessedInOrder` (`InOrder`): what waits on the wire of a client is in ascending order
  (`Rising`), and all of it is later than every document processed for it (`InLine`). The last piece of a
  document is the last one read and no head, so a message is never both processed and still to end.
* `DocumentsAreWhole` (`ReturnedWhole`). Alone it is not inductive: whether a document without a loose
  cut is one message of its reader depends on what is still to be read. `HalvesInv` follows the *tight* messages, cut where
  only a tail cut alike goes on (in or right after a word). In what a client wrote a tail follows its own head
  (`TailFollowsHead`); in the shared string no tight tail is without its head (`TailsHaveHeads`);
  and when the next thing to be read is a tight tail, its head is still in the string
  (`HeadIsHeld`): nothing may have emptied that meanwhile, because a document with the head in it
  ends it with a tight tail, whose head that can only be. `SpoiltOnlyInside`: only split characters are ever spoilt.
* `WaitingClientsAreServed` (`ReadMessageIsReturned`) and `AssemblyImplementsChannel` (the safety part of
  `ImplementsChannel`, `Channel!SafetySpec`) have the two conditions of section 3 as hypotheses: clients wait, and there is one
  connection or the network cuts nothing. The channel needs a third, that no cut splits a character. `TurnInv` says where each client is in its turn: `Between` messages,
  a message `Arriving`, or `Halfway` through one, its head alone in the shared string; the
  string holds such a head or nothing. Its lemmas ask for a turn only where a client writes (`Alone`) or
  leaves, not by constants, so that the server's theorem uses the same ones.

**ServerWorkersProofs.** `WorkersInvariant` and from it `WorkersTypeCorrect`,
`CountersExact`, `ServingHasDatabase`, `WorkersBalanced`. The type of `counter` (a natural number) and
`CounterExact` need each other: a counter that is decreased counts at least the connection that is
being destroyed, and only the exact meaning says so. `ServingWorkerHasDatabase` is
strengthened to threads that are past `open()` but not yet in `exec()` (`OpenedHasDatabase`),
because `quit()` may come in between. `Balanced` needs nothing of that but its own premise
read backwards: a destroyed connection stays destroyed (`NothingRevives`), so up to
now only accepted connections have moved the counters (`CountersMove`), each at a least loaded worker.

**QueryProcessingProofs.** `QueryInvariant` and from it `QueriesTypeCorrect`,
`EmailsAreUnique`, `IdentitiesAreProven`, `RepliesNameWhatExists`; from typing alone
`HangingStopsEveryone`. The invariant has four parts:
* *base*: typing; the query a thread executes is the one its client waits for, of a type that
  belongs to the step; a busy client has had fewer replies than it asked for;
* *accounts*: between the two statements of a registration the address **is still free**
  – true since all slots share one thread, and what makes `EmailUnique` inductive;
* *identity*: between the two statements of a login the account found by address is
  one whose password was given. Rests on `EmailUnique`: with two accounts for an address the id
  fetched could be the other one's. Before a login `userId` is what it was at the start, and a
  message's sender is the `userId` of its connection when it was sent;
* *replies*: the number and code held by a job about to reply are already backed by the
  database, and accounts, chats and messages only ever grow.

**QueryServiceProofs.** `ServerImplementsService` (`Spec => ImplementsService`): each statement is a step of
`QueryService` or a stutter. `ServiceInv` adds to the above what the completing statement has to
know of the earlier ones: which statement serves which query (`Serves`), that nothing has
been put into an answer before (`BlankUntilDecided`), and for a synchronisation
(`SyncOnCourse`) that the rows collected and the unread messages of the chats still to visit
make up the snapshot – true only because no other statement gets in between, for the main thread executes
them all. At the reply it is all of the snapshot (`SyncIsWhole`), which is
`SynchronizationsAreSnapshots` (`SyncIsSnapshot`).

**ServerProofs.** The composition keeps the promises of its parts. `ImplementsAssembly`
and `ImplementsWorkers` (`Spec => AP!Spec`, `Spec => WP!Spec`) show that each step of `Server` is a step of the component or
leaves it alone; the theorems about `MessageAssembly` and `ServerWorkers` then hold of the server
(`WorkersPromises`, `AssemblyPromises`). The case that needs an invariant is the one the components share: a stop
that closes an open socket has to be a disconnect of the assembly, and the later steps of a
connection's end must not be, which the typing of `conn` settles.
`AnswersAreDelivered` is the server's own, and so are the three theorems about taking turns:
* `TurnsPreventFaults` (`NoFault`). `DisciplineInv`: while nobody was out of turn, either nothing of a client is on
  its way (`Quiet`), or all workers serve and the main thread is in no call. `CallsInTurn`
  says how far `start()` and `stop()` have come: the workers behind the walk are all `Engaged` (on their way
  into their loops, with no `close()` left over) or all `Dismissed`, those ahead still idle or serving.
  Then a query always meets a serving worker, which has a database (`WorkersPromises`).
* `TurnsAreServed` (`ReadMessageIsReturned`). A client in turn writes when the wires of all others are empty and
  is closed when its own is, which is what `TurnInv` asks for; this carries it over stops, starts and
  cuts of the network, for any number of clients.
* `TurnsMakeAChannel` (`ServesAsChannel`), if no cut splits a character: then a step of the server is a step of `RequestChannel`, by the same lemma
  (`ChannelStep`) as in `AssemblyImplementsChannel`.

**CatchUpProofs.** `CatchUpInvariant`, then `NoneIsMissed` and `OnlyTheLastSecondRepeats`. What
is owed to a client and not received must be still to be asked for, among the rows collected, or in a chat
for which a statement failed (`Collected`), and the second a client remembers is one of a message there is
(`SinceIsSeen`): the database stamps new messages later than all there are, so they cannot
fall before it. That needs the whole synchronisation to be one moment: with a send between two chats
the invariant fails, and so does a mutant. The greatest of the times in an answer exists by
well-foundedness of the natural numbers (`MaxIsGreatest`).

**StartupProofs.** `StartupInvariant`: nothing is in use before the configuration has been read; from
then on all that is in use is what the table says (`UsesSettings`). An undisturbed start finds a
configuration and reads what is on the disk (`FindsConfig`). The TLS part
(`KeyIsOnDisk`) says it of the half that is loaded between the two halves. `EditsAreKept`
needs no invariant: each step of the program leaves an existing file alone by what `QFile::copy` refuses.

### Model-checked only

Every safety property and action property of the passing runs is stated by a theorem, `ImplementsChannel` by
its safety part. Left to the runs are liveness (`QueriesAnswered`,
`EveryMessageProcessed`, `StopClosesConnections`, `StartRunsWorkers`, `ComesToRest`) and the fairness of `ImplementsChannel`: they
need `ENABLED`, for which the prover has no rules. The disagreements of section 7 are shown by
their counterexamples. No module declares a RECURSIVE operator: recursion over
sequences is expressed by quantifiers over their indices.

## 7. Findings

Where the code does something else than a comment or document of the repository says,
a violation run shows it. Details and quotations are in `PROJECT.json`.

| run | the code | what is said |
|---|---|---|
| `assembly_interleaved` | pieces of two clients' messages are joined in the shared string; neither is ever processed, nor any later message of anyone | a message is returned as soon as it is received |
| `assembly_joined` | `{"k":"v",` of one client and `"l":"w"}` of another become one document, which is processed for the second | the message is received from the client correctly as a whole |
| `workers_stop_window` | after `stop()` a query uses a deleted database connection, until the queued `close()` events run | the server can be considered idle |
| `workers_destroy` | destruction deletes the database connection twice | frees the resources of the workers |

Other behaviours the models have and the code's comments do not expect; for most, a small change of a run or of
a property shows them:

* two messages read at once are not returned, and nothing after them (`client_connection.cpp:96`): `assembly_single` with
  `Pipelining = TRUE`, and even with `Cuts = {}`, violates `ReadMessageIsReturned`;
* a character cut by the network becomes replacement characters (`client_connection.cpp:92`), and the text
  with them is processed: `assembly_single` with `Cuts <- Joining` violates `ImplementsChannel`;
* one statement that does not return stops the clients of every worker, although each worker is a thread:
  `HangingStopsAll`, and `QueriesAnswered` without its `\/ Hung` is violated by `queries_live`;
* `start()` soon after `stop()` finds the thread still leaving its loop, does nothing, and the
  worker ends without a thread (`multithread_tcp_server.cpp:34`): `server` with `MaxUnruly = 1` violates
  `StartRunsWorkers` when `unruly # 0` is replaced by `unruly > 1 \/ fault # "none"`;
* a query that comes before its worker's thread has opened the database uses what is not there
  (`server_worker.cpp:67`), for connections are accepted at once: `server` with `MaxUnruly = 1` violates `NoFault` without its premise;
* the results of invitations, kicks and deletions are not looked at (`client_connection.cpp:189`), so a refused one is
  answered with code 0, and so is a login whose id could not be fetched (`client_connection.cpp:124`),
  while `docs/bes_protocol.md:5` says that 0 means success;
* a chat whose `hasUnreadMessages` or `getUnreadMessages` failed is left out of a synchronisation answered
  with code 0 (`database_connection.cpp:171, 233-253`), and a later message of another chat in that answer makes the client pass it over for ever: `catch_up`
  violates `NothingMissed` without `m \in skipped[c]`;
* two queries of the protocol, the members of a chat and the unread messages of one (`docs/bes_protocol.md:84-127`), have no branch and get no answer
  (`client_connection.cpp:222`);
* a query before a login acts for whatever the memory of `user.userId` held (`client_connection.cpp:162`), and its
  messages are stored under that account: the `StaleIds` of `IdentityIsProven`;
* if the database compares whole seconds, a message of the second a client was last told of is passed over for ever: `catch_up`
  violates `NothingMissed` without its premise;
* a server whose configuration cannot be read listens on a port the system chooses: `UndisturbedStart` allows it, `ListeningPort` says so;
* the beginning of a message whose client left stays in front of the next client's message, and
  `started()` is emitted when `listen()` failed: both are transitions of the models.

## 8. Not modelled

* **toml++** – a third-party parser, vendored twice (`app/libs/include/toml.hpp`, `libs/include/toml.hpp`), 26334 of
  the 27825 lines of code in the repository. What `ConfigReader` gets from it (a table, an exception, a
  value or its default) is in `Startup`. The modules cover two thirds of the other 1500 lines; what is left of
  those are declarations, doc comments, includes and the entries below.
* **`toInt()` of 64-bit ids** – keeps the low 32 bits, so that an id above 2^31 would come out as another number; the
  models' ids stay below, and how the functions of the database assign them is not in the repository. Ids travel
  as JSON doubles, which hold every 32-bit number.
* **`IDatabaseConnection.h`** – an empty include guard.
* **Counting statements** (the number of users or chats asked before the list): they only
  reserve memory.
* **`getUsersInChat`, `isEmailAvailable` as a public call, `close`, `isActive` of
  `DatabaseConnection`, `User::clear`** – no query reaches them.
* **Signals nobody connects to** (`clientConnectionOpenned`, `clientConnectionClosed`), logging, wording.
* **What a SQL driver does when used outside the thread that made it** – outside the repository; a
  statement works or fails.
* **A fault in the middle of a walk** ends the behaviour; other outcomes of undefined behaviour
  are not followed.

## 9. Plan

Done, in the order of what matters most: assembly, workers, queries; the abstract service and its
refinement; the start-up; synchronisation over time; the composition `Server`; theorems about each of
them, of every safety and action property the passing runs check, and of both refinements. Left, each as a property with a run
before its proof:

1. What liveness rests on, as far as it is safety: that under `unruly = 0` a step of every call of the main thread and
   of every slot that has begun is possible (no worker waits for the main thread while that waits for it).
2. What can be promised, for the hazards that have no property in `PROJECT.json`, to callers out of turn: which
   acts out of turn the server recovers from, beginning with a `start()` that overtakes the threads of the last stop.

## 10. Running

    tlc -workers 2 -config assembly_any.cfg MCMessageAssembly
    tlapm QueryProcessingProofs.tla

The module of each configuration and its expected outcome are in `PROJECT.json`.
