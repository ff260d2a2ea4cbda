-------------------------- MODULE QueryProcessing --------------------------
(***************************************************************************)
(* What the server does with a query once it has been read:                *)
(* ClientConnection::processQuery, the ServerWorker methods that pass it   *)
(* on and the SQL statements of DatabaseConnection                         *)
(* (app/src/client_connection.cpp:108-225, database_connection.cpp).       *)
(*                                                                         *)
(* One SQL statement is one step.  A statement may be executed, may fail,  *)
(* or may be executed and have its result lost with the connection; the    *)
(* code looks only at the value of the first row, and a missing value      *)
(* reads as false, as 0 or as no rows.  The functions of the database are  *)
(* not in the repository; they are modelled from how the code uses them,   *)
(* and they do not themselves refuse a second account for an address.      *)
(*                                                                         *)
(* Accounts, chats and messages are numbered from 1 in the order of their  *)
(* creation; the number of a message stands for its sending time.          *)
(***************************************************************************)
EXTENDS Naturals, Sequences

CONSTANTS Connections,   \* the clients, each connected once
          WorkerOf,      \* the worker each connection belongs to
          Hanging,       \* workers whose database may cease to answer
          Queries,       \* the queries clients may send
          StaleIds,      \* what the memory of an unset user.userId may hold
          MaxQueries,    \* bound: queries of one client
          MaxFailures    \* bound: statements that fail or lose their result

QueryTypes == {"login", "registration", "users", "chats", "send", "create",
               "delete", "invite", "kick", "synchronization",
               "chatMembers", "unreadMessages"}

ASSUME QueriesAssumption == \A q \in Queries : q.type \in QueryTypes
ASSUME StaleIdsAssumption == StaleIds \subseteq Nat
ASSUME BoundsAssumption == MaxQueries \in Nat /\ MaxFailures \in Nat

NoQuery == [type |-> "none"]

VARIABLES accounts,    \* the database: accounts,
          chats,       \* chats,
          messages,    \* and messages
          userId,      \* user.userId of each connection
          loggedIn,    \* did the connection ever set it?
          proven,      \* accounts whose password the connection gave
          asked,       \* number of queries of each client
          answered,    \* number of replies to each client
          waiting,     \* the query each connection has to process
          reply,       \* the last reply to each client, and its query
          job,         \* what each thread that runs slots is executing
          failures

database == <<accounts, chats, messages>>
identity == <<userId, loggedIn, proven>>
clients  == <<asked, answered, waiting, reply>>
vars == <<database, identity, clients, job, failures>>

-----------------------------------------------------------------------------
(* The ClientConnection is created in incomingConnection(), in the main    *)
(* thread, with a worker object of the main thread as its parent: its      *)
(* slots run in the main thread, whichever worker it belongs to.           *)
SlotThread_Moved(c) == WorkerOf[c]
SlotThread(c) == "main"
Threads == {SlotThread(c) : c \in Connections}

(* The first statement of each query that processQuery knows.              *)
FirstStep_NoSynchronization ==
    [login |-> "verifyLogIn", registration |-> "isEmailAvailable",
     users |-> "getListOfUsers", chats |-> "getListOfChats",
     send |-> "sendMessage", create |-> "createNewChat"]
FirstStep == [login           |-> "verifyLogIn",
              registration    |-> "isEmailAvailable",
              users           |-> "getListOfUsers",
              chats           |-> "getListOfChats",
              send            |-> "sendMessage",
              create          |-> "createNewChat",
              delete          |-> "deleteChat",
              invite          |-> "inviteToChat",
              kick            |-> "kickFromChat",
              synchronization |-> "getListOfChats"]

Idle == [step |-> "idle"]

(* What the database knows.                                                *)
Known(email, password) ==
    {a \in DOMAIN accounts : accounts[a] = [email |-> email, password |-> password]}
AccountsOf(email) == {a \in DOMAIN accounts : accounts[a].email = email}
ChatsOf(user) == {k \in DOMAIN chats : user \in chats[k]}
Unread(k, since) == {m \in DOMAIN messages : messages[m].chat = k /\ m > since}
Exists(user, k) == user \in DOMAIN accounts /\ k \in DOMAIN chats /\ chats[k] # {}

Init ==
    /\ accounts = <<>> /\ chats = <<>> /\ messages = <<>>
    /\ userId \in [Connections -> StaleIds]
    /\ loggedIn = [c \in Connections |-> FALSE]
    /\ proven = [c \in Connections |-> {}]
    /\ asked = [c \in Connections |-> 0] /\ answered = asked
    /\ waiting = [c \in Connections |-> NoQuery]
    /\ reply = [c \in Connections |-> [query |-> NoQuery]]
    /\ job = [t \in Threads |-> Idle]
    /\ failures = 0

(* A client sends a query; it waits for the last one to be taken care of.  *)
Ask(c) ==
    /\ waiting[c] = NoQuery /\ asked[c] < MaxQueries
    /\ asked' = [asked EXCEPT ![c] = @ + 1]
    /\ waiting' \in {[waiting EXCEPT ![c] = q] : q \in Queries}
    /\ UNCHANGED <<database, identity, answered, reply, job, failures>>

(* processQuery is called: the response starts with code 0.  A query it    *)
(* does not know gets no reply at all.                                     *)
ProcessQuery(c) ==
    /\ job[SlotThread(c)] = Idle
    /\ waiting[c] # NoQuery
    /\ \/ /\ waiting[c].type \in DOMAIN FirstStep
          /\ job' = [job EXCEPT ![SlotThread(c)] =
               [step |-> FirstStep[waiting[c].type], client |-> c,
                query |-> waiting[c], code |-> 0, number |-> 0, rows |-> {},
                todo |-> {}, found |-> {}, done |-> TRUE]]
          /\ UNCHANGED waiting
       \/ /\ waiting[c].type \notin DOMAIN FirstStep
          /\ waiting' = [waiting EXCEPT ![c] = NoQuery]
          /\ UNCHANGED job
    /\ UNCHANGED <<database, identity, asked, answered, reply, failures>>

(* sendResponse.                                                           *)
SendResponse_StaysBusy(t) ==
    /\ job[t].step = "reply"
    /\ LET c == job[t].client IN
         /\ reply' = [reply EXCEPT ![c] =
              [query |-> job[t].query, code |-> job[t].code,
               number |-> job[t].number, rows |-> job[t].rows,
               done |-> job[t].done]]
         /\ answered' = [answered EXCEPT ![c] = @ + 1]
         /\ waiting' = [waiting EXCEPT ![c] = NoQuery]
    /\ UNCHANGED <<database, identity, asked, job, failures>>
SendResponse(t) ==
    /\ job[t].step = "reply"
    /\ LET c == job[t].client IN
         /\ reply' = [reply EXCEPT ![c] =
              [query |-> job[t].query, code |-> job[t].code,
               number |-> job[t].number, rows |-> job[t].rows,
               done |-> job[t].done]]
         /\ answered' = [answered EXCEPT ![c] = @ + 1]
         /\ waiting' = [waiting EXCEPT ![c] = NoQuery]
    /\ job' = [job EXCEPT ![t] = Idle]
    /\ UNCHANGED <<database, identity, asked, failures>>

-----------------------------------------------------------------------------
(* Statements.                                                             *)

(* The thread t comes to the given statement.                              *)
At(t, step) == job[t].step = step

(* What the code gets from a statement: its value, or none.                *)
Outcome(got, value, none, effect) ==
    \/ got = value /\ effect /\ UNCHANGED failures
    \/ /\ failures < MaxFailures
       /\ failures' = failures + 1
       /\ got = none
       /\ effect \/ UNCHANGED database
Clean == failures' = failures

Reads == UNCHANGED database

VerifyLogIn_ForgetsPassword(t) ==
    /\ At(t, "verifyLogIn")
    /\ LET j == job[t]
           known == Known(j.query.email, j.query.password)
       IN  \E got \in BOOLEAN :
             /\ Outcome(got, AccountsOf(j.query.email) # {}, FALSE, Reads)
             /\ job' = [job EXCEPT ![t] =
                  IF got THEN [j EXCEPT !.step = "getUserId"]
                         ELSE [j EXCEPT !.step = "reply", !.code = 1]]
             /\ proven' = [proven EXCEPT ![j.client] =
                             IF got THEN @ \cup known ELSE @]
    /\ UNCHANGED <<userId, loggedIn, clients>>
VerifyLogIn(t) ==
    /\ At(t, "verifyLogIn")
    /\ LET j == job[t]
           known == Known(j.query.email, j.query.password)
       IN  \E got \in BOOLEAN :
             /\ Outcome(got, known # {}, FALSE, Reads)
             /\ job' = [job EXCEPT ![t] =
                  IF got THEN [j EXCEPT !.step = "getUserId"]
                         ELSE [j EXCEPT !.step = "reply", !.code = 1]]
             /\ proven' = [proven EXCEPT ![j.client] =
                             IF got THEN @ \cup known ELSE @]
    /\ UNCHANGED <<userId, loggedIn, clients>>

FirstAccountOf(email) ==
    CHOOSE a \in DOMAIN accounts \cup {0} :
        IF AccountsOf(email) = {} THEN a = 0
        ELSE a \in AccountsOf(email) /\ \A b \in AccountsOf(email) : a <= b

GetUserId(t) ==
    /\ At(t, "getUserId")
    /\ LET j == job[t] IN
         \E got \in 0 .. Len(accounts) :
           /\ Outcome(got, FirstAccountOf(j.query.email), 0, Reads)
           /\ userId' = [userId EXCEPT ![j.client] = got]
           /\ loggedIn' = [loggedIn EXCEPT ![j.client] = TRUE]
           /\ job' = [job EXCEPT ![t] =
                [j EXCEPT !.step = "reply", !.number = got, !.done = got # 0]]
    /\ UNCHANGED <<proven, clients>>

(* registerNewUser: the address is checked by one statement and the        *)
(* account is made by another.                                             *)
IsEmailAvailable(t) ==
    /\ At(t, "isEmailAvailable")
    /\ LET j == job[t] IN
         \E got \in BOOLEAN :
           /\ Outcome(got, AccountsOf(j.query.email) = {}, FALSE, Reads)
           /\ job' = [job EXCEPT ![t] =
                IF got THEN [j EXCEPT !.step = "registerNewUser"]
                       ELSE [j EXCEPT !.step = "reply", !.code = 1]]
    /\ UNCHANGED <<identity, clients>>

RegisterNewUser_IgnoresResult(t) ==
    /\ At(t, "registerNewUser")
    /\ LET j == job[t]
           account == [email |-> j.query.email, password |-> j.query.password]
       IN  \E got \in BOOLEAN :
             /\ Outcome(got, TRUE, FALSE, /\ accounts' = Append(accounts, account)
                                          /\ UNCHANGED <<chats, messages>>)
             /\ job' = [job EXCEPT ![t] = [j EXCEPT !.step = "reply"]]
    /\ UNCHANGED <<identity, clients>>
RegisterNewUser(t) ==
    /\ At(t, "registerNewUser")
    /\ LET j == job[t]
           account == [email |-> j.query.email, password |-> j.query.password]
       IN  \E got \in BOOLEAN :
             /\ Outcome(got, TRUE, FALSE, /\ accounts' = Append(accounts, account)
                                          /\ UNCHANGED <<chats, messages>>)
             /\ job' = [job EXCEPT ![t] =
                  [j EXCEPT !.step = "reply", !.code = IF got THEN 0 ELSE 1]]
    /\ UNCHANGED <<identity, clients>>

(* Statements whose rows are the answer.  The statement that only counts   *)
(* the rows beforehand, to reserve memory, is left out.                    *)
GetListOfUsers(t) ==
    /\ At(t, "getListOfUsers")
    /\ \E got \in {DOMAIN accounts, {}} :
         /\ Outcome(got, DOMAIN accounts, {}, Reads)
         /\ job' = [job EXCEPT ![t] =
              [@ EXCEPT !.step = "reply", !.rows = got, !.done = Clean]]
    /\ UNCHANGED <<identity, clients>>

(* synchronize() goes on through the chats of the user, one statement to   *)
(* see whether a chat has unread messages, and then through the chats that *)
(* have some, one statement to fetch them.                                 *)
SyncStep(todo, found) ==
    IF todo # {} THEN "hasUnreadMessages"
    ELSE IF found # {} THEN "getUnreadMessages" ELSE "reply"

GetListOfChats(t) ==
    /\ At(t, "getListOfChats")
    /\ LET j == job[t]
           own == ChatsOf(userId[j.client])
       IN  \E got \in {own, {}} :
             /\ Outcome(got, own, {}, Reads)
             /\ job' = [job EXCEPT ![t] =
                  IF j.query.type = "chats"
                  THEN [j EXCEPT !.step = "reply", !.rows = got, !.done = Clean]
                  ELSE [j EXCEPT !.step = SyncStep(got, {}), !.todo = got,
                                 !.done = Clean]]
    /\ UNCHANGED <<identity, clients>>

HasUnreadMessages(t) ==
    /\ At(t, "hasUnreadMessages")
    /\ LET j == job[t] IN
         \E k \in j.todo, got \in BOOLEAN :
           LET todo == j.todo \ {k}
               found == IF got THEN j.found \cup {k} ELSE j.found
           IN  /\ Outcome(got, Unread(k, j.query.since) # {}, FALSE, Reads)
               /\ job' = [job EXCEPT ![t] =
                    [j EXCEPT !.step = SyncStep(todo, found), !.todo = todo,
                              !.found = found, !.done = @ /\ Clean]]
    /\ UNCHANGED <<identity, clients>>

GetUnreadMessages(t) ==
    /\ At(t, "getUnreadMessages")
    /\ LET j == job[t] IN
         \E k \in j.found :
           LET unread == Unread(k, j.query.since)
               found == j.found \ {k}
           IN  \E got \in {unread, {}} :
                 /\ Outcome(got, unread, {}, Reads)
                 /\ job' = [job EXCEPT ![t] =
                      [j EXCEPT !.step = SyncStep({}, found), !.found = found,
                                !.rows = @ \cup got, !.done = @ /\ Clean]]
    /\ UNCHANGED <<identity, clients>>

(* Statements that change chats and messages.  processQuery answers code 0 *)
(* whatever they return.  A user or a chat that is not there is refused.   *)
CreateNewChat(t) ==
    /\ At(t, "createNewChat")
    /\ LET j == job[t]
           owner == userId[j.client]
           new == IF owner \in DOMAIN accounts THEN Len(chats) + 1 ELSE 0
       IN  \E got \in {new, 0} :
             /\ Outcome(got, new, 0,
                        /\ chats' = IF new = 0 THEN chats ELSE Append(chats, {owner})
                        /\ UNCHANGED <<accounts, messages>>)
             /\ job' = [job EXCEPT ![t] =
                  [j EXCEPT !.step = "reply", !.number = got, !.done = got # 0]]
    /\ UNCHANGED <<identity, clients>>

(* One statement that replaces the members of chat k, if accepted.         *)
ChangeMembers(t, k, accepted, members) ==
    /\ \E got \in BOOLEAN :
         /\ Outcome(got, accepted, FALSE,
                    /\ chats' = IF accepted THEN [chats EXCEPT ![k] = members] ELSE chats
                    /\ UNCHANGED <<accounts, messages>>)
         /\ job' = [job EXCEPT ![t] = [@ EXCEPT !.step = "reply", !.done = got]]
    /\ UNCHANGED <<identity, clients>>

DeleteChat(t) ==
    /\ At(t, "deleteChat")
    /\ LET k == job[t].query.chat IN
         ChangeMembers(t, k, k \in DOMAIN chats /\ chats[k] # {}, {})

InviteToChat(t) ==
    /\ At(t, "inviteToChat")
    /\ LET k == job[t].query.chat
           user == job[t].query.user
       IN  ChangeMembers(t, k, Exists(user, k), chats[k] \cup {user})

KickFromChat(t) ==
    /\ At(t, "kickFromChat")
    /\ LET k == job[t].query.chat
           user == job[t].query.user
       IN  ChangeMembers(t, k, k \in DOMAIN chats /\ user \in chats[k],
                         chats[k] \ {user})

SendMessage(t) ==
    /\ At(t, "sendMessage")
    /\ LET j == job[t]
           k == j.query.chat
           sender == userId[j.client]
           new == IF Exists(sender, k) THEN Len(messages) + 1 ELSE 0
       IN  \E got \in {new, 0} :
             /\ Outcome(got, new, 0,
                        /\ messages' = IF new = 0 THEN messages
                             ELSE Append(messages,
                                    [chat |-> k, sender |-> sender, via |-> j.client])
                        /\ UNCHANGED <<accounts, chats>>)
             /\ job' = [job EXCEPT ![t] =
                  [j EXCEPT !.step = "reply", !.number = got, !.done = got # 0]]
    /\ UNCHANGED <<identity, clients>>

Statement(t) ==
    \/ VerifyLogIn(t) \/ GetUserId(t)
    \/ IsEmailAvailable(t) \/ RegisterNewUser(t)
    \/ GetListOfUsers(t) \/ GetListOfChats(t)
    \/ HasUnreadMessages(t) \/ GetUnreadMessages(t)
    \/ CreateNewChat(t) \/ DeleteChat(t)
    \/ InviteToChat(t) \/ KickFromChat(t) \/ SendMessage(t)

Slot(t) == Statement(t) \/ SendResponse(t)

(* The database comes to no answer any more: exec() does not return, there *)
(* is no time limit, and the slot that called it never ends.               *)
Hang(t) ==
    /\ job[t].step \notin {"idle", "reply", "hung"}
    /\ WorkerOf[job[t].client] \in Hanging
    /\ job' = [job EXCEPT ![t].step = "hung"]
    /\ UNCHANGED <<database, identity, clients, failures>>

Next == \/ \E c \in Connections : Ask(c) \/ ProcessQuery(c)
        \/ \E t \in Threads : Slot(t) \/ Hang(t)

Spec == Init /\ [][Next]_vars

(* A statement returns unless its database hangs, the slot goes on, and    *)
(* the event loop comes to every readyRead that is due again and again.    *)
Fairness == /\ \A t \in Threads : WF_vars(Slot(t))
            /\ \A c \in Connections : SF_vars(ProcessQuery(c))

FairSpec == Spec /\ Fairness

-----------------------------------------------------------------------------
(* The shape of what is stored and of what a thread is executing.          *)
Credentialed == {q \in Queries : q.type \in {"login", "registration"}}
Account == [email    : {q.email : q \in Credentialed},
            password : {q.password : q \in Credentialed}]
Message == [chat : Nat, sender : Nat, via : Connections]
Steps == {FirstStep[x] : x \in DOMAIN FirstStep}
            \cup {"getUserId", "registerNewUser", "hasUnreadMessages",
                  "getUnreadMessages", "reply", "hung"}
Job == [step : Steps, client : Connections, query : Queries, code : {0, 1},
        number : Nat, rows : SUBSET Nat, todo : SUBSET Nat,
        found : SUBSET Nat, done : BOOLEAN]

Reply == [query : Queries, code : {0, 1}, number : Nat, rows : SUBSET Nat,
          done : BOOLEAN]

(* Every variable keeps its shape, every number that is stored names       *)
(* something stored, and no client gets more replies than it asked for.    *)
TypeOK ==
    /\ accounts \in Seq(Account)
    /\ chats \in Seq(SUBSET DOMAIN accounts)
    /\ messages \in Seq(Message)
    /\ \A m \in DOMAIN messages : /\ messages[m].chat \in DOMAIN chats
                                  /\ messages[m].sender \in DOMAIN accounts
    /\ userId \in [Connections -> Nat]
    /\ loggedIn \in [Connections -> BOOLEAN]
    /\ proven \in [Connections -> SUBSET DOMAIN accounts]
    /\ asked \in [Connections -> 0 .. MaxQueries]
    /\ answered \in [Connections -> Nat]
    /\ \A c \in Connections : answered[c] <= asked[c]
    /\ waiting \in [Connections -> Queries \cup {NoQuery}]
    /\ reply \in [Connections -> Reply \cup {[query |-> NoQuery]}]
    /\ job \in [Threads -> Job \cup {Idle}]
    /\ failures \in 0 .. MaxFailures

(* The check of the address and the registration are two statements, and   *)
(* yet no two accounts ever have the same address: the slots of all        *)
(* connections share one thread, and a check that fails counts as an       *)
(* address in use (database_connection.cpp:85-110).                        *)
EmailUnique ==
    \A a, b \in DOMAIN accounts : accounts[a].email = accounts[b].email => a = b

(* A connection that has logged in acts for nobody or for an account whose *)
(* password it gave, although the password is checked by one statement and *)
(* the id fetched, by address alone, by another: this rests on EmailUnique *)
(* (client_connection.cpp:118-126).  One that never has acts for whatever  *)
(* its memory held, since user.userId is not set before: nobody else's     *)
(* login gives it an account.  So every message is sent by an account that *)
(* was proven on its connection or was left in the memory of one.          *)
IdentityIsProven ==
    /\ \A c \in Connections :
         userId[c] \in IF loggedIn[c] THEN proven[c] \cup {0} ELSE StaleIds
    /\ \A m \in DOMAIN messages :
         messages[m].sender \in proven[messages[m].via] \cup StaleIds

(* What a reply names exists, whatever statements failed on the way: a     *)
(* registration answered with code 0 has its account, a chat number other  *)
(* than 0 a chat, a sending time other than 0 a message of that client in  *)
(* that chat (client_connection.cpp:133-145, 174-184).                     *)
RepliesAreReal ==
    \A c \in Connections :
        LET r == reply[c] IN
        /\ r.query.type = "registration" /\ r.code = 0 =>
             Known(r.query.email, r.query.password) # {}
        /\ r.query.type = "create" /\ r.number # 0 => r.number \in DOMAIN chats
        /\ r.query.type = "send" /\ r.number # 0 =>
             /\ r.number \in DOMAIN messages
             /\ messages[r.number].via = c
             /\ messages[r.number].chat = r.query.chat

(* The reply to a synchronisation none of whose statements failed holds    *)
(* exactly the messages that are unread at that moment in the chats of the *)
(* user, although it is put together from several statements               *)
(* (server_worker.cpp:134-143).                                            *)
SyncIsSnapshot ==
    [][\A t \in Threads :
         SendResponse(t) /\ job[t].query.type = "synchronization" /\ job[t].done =>
           job[t].rows = UNION {Unread(k, job[t].query.since) :
                                  k \in ChatsOf(userId[job[t].client])}]_vars

Hung == \E t \in Threads : job[t].step = "hung"
Unserved == {"chatMembers", "unreadMessages"}

(* Every query of a kind that processQuery knows is answered, whatever the *)
(* other clients ask, unless some statement never comes to an end: that of *)
(* any client of any worker (client_connection.cpp:108-225).               *)
QueriesAnswered ==
    \A c \in Connections : \A n \in 0 .. MaxQueries - 1 :
        waiting[c].type \in QueryTypes \ Unserved /\ answered[c] = n
            ~> answered[c] > n \/ Hung

(* One statement without an end stops the server for all clients of all    *)
(* workers: from then on no query is executed and none is answered, for    *)
(* the workers have databases and threads of their own, but their clients' *)
(* slots run in the main thread (multithread_tcp_server.cpp:79-103,        *)
(* server_worker.cpp:40-62).                                               *)
HangingStopsAll ==
    [][Hung => UNCHANGED <<database, identity, answered, reply, job>>]_vars

(* Every query is executed as if in one step, although it takes several    *)
(* statements and other clients' queries wait meanwhile: the server        *)
(* implements QueryService, a query taking effect with the statement that  *)
(* completes it (client_connection.cpp:108-225).                           *)
Completed(c) == {t \in Threads : job[t].step = "reply" /\ job[t].client = c}
Pending == [c \in Connections |->
    IF Completed(c) = {} THEN [query |-> NoQuery]
    ELSE LET j == job[CHOOSE t \in Completed(c) : TRUE]
         IN  [query |-> j.query, code |-> j.code, number |-> j.number,
              rows |-> j.rows, done |-> j.done]]
Service == INSTANCE QueryService WITH outcome <- Pending

ImplementsService == Service!Spec
=============================================================================
