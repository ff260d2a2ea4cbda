---------------------------- MODULE QueryService ----------------------------
(***************************************************************************)
(* What the server promises about queries, before any question of how many *)
(* SQL statements a query takes and which thread runs them: a query is     *)
(* executed at one moment, all of it or none of it, on the database as it  *)
(* is at that moment, and is answered once.  When the database fails, the  *)
(* answer may say less than is true, but never anything that is not.       *)
(* The formats of queries and answers are those of docs/bes_protocol.md.   *)
(***************************************************************************)
EXTENDS Naturals, Sequences

CONSTANTS Connections,   \* the clients
          Queries,       \* the queries clients may send
          StaleIds,      \* whom a connection may act for before a login
          MaxQueries,    \* queries of one client
          MaxFailures    \* failures of the database

VARIABLES accounts, chats, messages,   \* the database
          userId,                      \* whom each connection acts for
          asked, answered, waiting,    \* the queries of each client
          outcome,                     \* an answer that is not sent yet
          reply,                       \* the last answer to each client
          failures

data    == <<accounts, chats, messages>>
clients == <<asked, answered, waiting, reply>>
serviceVars == <<data, userId, clients, outcome, failures>>

Nothing == [query |-> [type |-> "none"]]
NoQuery == Nothing.query
Unserved == {"chatMembers", "unreadMessages"}

(* The database.                                                           *)
OwnersOf(email) == {a \in DOMAIN accounts : accounts[a].email = email}
ProvenBy(q) == {a \in OwnersOf(q.email) : accounts[a].password = q.password}
Joined(user) == {k \in DOMAIN chats : user \in chats[k]}
Snapshot(user, since) ==
    {m \in DOMAIN messages : messages[m].chat \in Joined(user) /\ m > since}
Present(user, k) == user \in DOMAIN accounts /\ k \in DOMAIN chats /\ chats[k] # {}

Init ==
    /\ accounts = <<>> /\ chats = <<>> /\ messages = <<>>
    /\ userId \in [Connections -> StaleIds]
    /\ asked = [c \in Connections |-> 0]
    /\ answered = [c \in Connections |-> 0]
    /\ waiting = [c \in Connections |-> NoQuery]
    /\ outcome = [c \in Connections |-> Nothing]
    /\ reply = [c \in Connections |-> Nothing]
    /\ failures = 0

Ask(c) ==
    /\ waiting[c] = NoQuery /\ asked[c] < MaxQueries
    /\ asked' = [asked EXCEPT ![c] = @ + 1]
    /\ \E q \in Queries : waiting' = [waiting EXCEPT ![c] = q]
    /\ UNCHANGED <<data, userId, answered, outcome, reply, failures>>

-----------------------------------------------------------------------------
Sound  == failures' = failures
Failed == failures < MaxFailures /\ failures' = failures + 1

Answer(c, code, number, rows, done) ==
    outcome' = [outcome EXCEPT ![c] =
        [query |-> waiting[c], code |-> code, number |-> number,
         rows |-> rows, done |-> done]]

(* A change of the database that is carried out, or fails, or is carried   *)
(* out and reported as failed.  What is reported is a number, 0 for none.  *)
Change(c, legal, effect, number) ==
    \/ /\ Sound
       /\ IF legal THEN effect /\ Answer(c, 0, number, {}, TRUE)
                   ELSE UNCHANGED data /\ Answer(c, 0, 0, {}, FALSE)
    \/ /\ Failed
       /\ (legal /\ effect) \/ UNCHANGED data
       /\ Answer(c, 0, 0, {}, FALSE)

(* Rows that are read, or not.                                             *)
Read(c, rows) ==
    /\ \/ Sound /\ Answer(c, 0, 0, rows, TRUE)
       \/ Failed /\ Answer(c, 0, 0, {}, FALSE)
    /\ UNCHANGED data

Login(c, q) ==
    /\ \/ \E a \in ProvenBy(q) : /\ Sound
                                 /\ userId' = [userId EXCEPT ![c] = a]
                                 /\ Answer(c, 0, a, {}, TRUE)
       \/ /\ ProvenBy(q) # {} /\ Failed
          /\ userId' = [userId EXCEPT ![c] = 0]
          /\ Answer(c, 0, 0, {}, FALSE)
       \/ /\ (ProvenBy(q) = {} /\ Sound) \/ Failed
          /\ UNCHANGED userId
          /\ Answer(c, 1, 0, {}, TRUE)
    /\ UNCHANGED data

Registration(c, q) ==
    LET free == OwnersOf(q.email) = {}
        open == /\ accounts' = Append(accounts, [email |-> q.email, password |-> q.password])
                /\ UNCHANGED <<chats, messages>>
    IN  \/ free /\ Sound /\ open /\ Answer(c, 0, 0, {}, TRUE)
        \/ free /\ Failed /\ open /\ Answer(c, 1, 0, {}, TRUE)
        \/ /\ (~ free /\ Sound) \/ Failed
           /\ UNCHANGED data /\ Answer(c, 1, 0, {}, TRUE)

Create(c) ==
    Change(c, userId[c] \in DOMAIN accounts,
           chats' = Append(chats, {userId[c]}) /\ UNCHANGED <<accounts, messages>>,
           Len(chats) + 1)

Send(c, k) ==
    Change(c, Present(userId[c], k),
           /\ messages' = Append(messages, [chat |-> k, sender |-> userId[c], via |-> c])
           /\ UNCHANGED <<accounts, chats>>,
           Len(messages) + 1)

Members(c, k, legal, members) ==
    Change(c, legal,
           chats' = [chats EXCEPT ![k] = members] /\ UNCHANGED <<accounts, messages>>, 0)

(* A synchronisation is one moment's snapshot; failures on the way only    *)
(* make it smaller.                                                        *)
Synchronization(c, since) ==
    LET snapshot == Snapshot(userId[c], since) IN
    /\ \/ Sound /\ Answer(c, 0, 0, snapshot, TRUE)
       \/ /\ (failures > 0 /\ Sound) \/ Failed
          /\ \E rows \in SUBSET snapshot : Answer(c, 0, 0, rows, FALSE)
    /\ UNCHANGED data

Serve(c, q) ==
    \/ q.type = "users" /\ Read(c, DOMAIN accounts)
    \/ q.type = "chats" /\ Read(c, Joined(userId[c]))
    \/ q.type = "create" /\ Create(c)
    \/ q.type = "send" /\ Send(c, q.chat)
    \/ q.type = "delete" /\
         Members(c, q.chat, q.chat \in DOMAIN chats /\ chats[q.chat] # {}, {})
    \/ q.type = "invite" /\
         Members(c, q.chat, Present(q.user, q.chat), chats[q.chat] \cup {q.user})
    \/ q.type = "kick" /\
         Members(c, q.chat, q.chat \in Joined(q.user), chats[q.chat] \ {q.user})
    \/ q.type = "synchronization" /\ Synchronization(c, q.since)
    \/ q.type = "registration" /\ Registration(c, q)

Execute(c) ==
    /\ waiting[c] # NoQuery /\ outcome[c] = Nothing
    /\ \/ waiting[c].type = "login" /\ Login(c, waiting[c])
       \/ Serve(c, waiting[c]) /\ UNCHANGED userId
    /\ UNCHANGED clients

Deliver(c) ==
    /\ outcome[c] # Nothing
    /\ reply' = [reply EXCEPT ![c] = outcome[c]]
    /\ answered' = [answered EXCEPT ![c] = @ + 1]
    /\ waiting' = [waiting EXCEPT ![c] = NoQuery]
    /\ outcome' = [outcome EXCEPT ![c] = Nothing]
    /\ UNCHANGED <<data, userId, asked, failures>>

(* A query that is not of the protocol's known ones goes unanswered.       *)
Drop(c) ==
    /\ waiting[c].type \in Unserved
    /\ waiting' = [waiting EXCEPT ![c] = NoQuery]
    /\ UNCHANGED <<data, userId, asked, answered, outcome, reply, failures>>

(* A failure that is not yet seen in any answer.                           *)
Falter == Failed /\ UNCHANGED <<data, userId, clients, outcome>>

Next == \/ Falter
        \/ \E c \in Connections : Ask(c) \/ Execute(c) \/ Deliver(c) \/ Drop(c)

Spec == Init /\ [][Next]_serviceVars
=============================================================================
