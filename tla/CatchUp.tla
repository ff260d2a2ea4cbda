------------------------------ MODULE CatchUp ------------------------------
(***************************************************************************)
(* What a client that synchronises again and again ends up with            *)
(* (synchronisation in app/src/client_connection.cpp:196-220,              *)
(* ServerWorker::synchronize and the statements behind it).                *)
(*                                                                         *)
(* A client asks for the messages after the last time it has been told.    *)
(* Times travel as whole seconds, while the database stamps messages with  *)
(* a finer clock.  How the SQL functions compare the two is not in the     *)
(* repository: they compare the time stamp itself ("exact") or its whole   *)
(* seconds ("seconds").  Time is counted in ticks; no two messages have    *)
(* the same one.                                                           *)
(*                                                                         *)
(* A statement that fails is not noticed: no chats, false or no rows come  *)
(* back, and the answer goes out as if there were nothing to read.         *)
(***************************************************************************)
EXTENDS Integers, FiniteSets, FiniteSetsExt

CONSTANTS Clients, Chats,
          TicksPerSecond,
          MaxTime,        \* bound: the last tick
          MaxMessages,    \* bound: messages sent
          MaxChanges,     \* bound: invitations and kicks
          MaxFailures     \* bound: steps of synchronisations that fail

ASSUME TicksAssumption == TicksPerSecond \in Nat \ {0}
ASSUME MaxTimeAssumption == MaxTime \in Nat
ASSUME ChangesAssumption == MaxChanges \in Nat
ASSUME FailuresAssumption == MaxFailures \in Nat

VARIABLES compare,     \* how get_unread_messages compares
          members,     \* of each chat
          messages,    \* those sent: their times and chats
          since,       \* the last second each client was told, -1 for none
          sync,        \* the synchronisation of each client that runs
          received,    \* how often each client received each message, up to 2
          owed,        \* history: sent while the client was a member, and
                       \* the client has been one since
          skipped,     \* history: in a chat that an answer left out because
                       \* a statement had failed
          changes, failures

bounds == <<changes, failures>>
vars == <<compare, members, messages, since, sync, received, owed, skipped, bounds>>

Message == [time : 1 .. MaxTime, chat : Chats]

(* A synchronisation: the time it goes by, the chats still to read, those  *)
(* for which a statement failed, and what has been read.                   *)
Synchronization == [running : BOOLEAN, since : -1 .. MaxTime, todo : SUBSET Chats,
                    failed : SUBSET Chats, rows : SUBSET Message]
NoSync == [running |-> FALSE, since |-> 0, todo |-> {}, failed |-> {}, rows |-> {}]

(* All slots share the main thread: none starts while another runs.        *)
Free_OfItsOwnThread(c) == ~ sync[c].running
Free(c) == \A d \in Clients : ~ sync[d].running

(* QDateTime::toSecsSinceEpoch.                                            *)
ToSecsSinceEpoch_Milliseconds(t) == (t * 1000) \div TicksPerSecond
ToSecsSinceEpoch(t) == t \div TicksPerSecond

(* The messages of a chat the SQL functions take for unread.               *)
Unread(k, last) ==
    {m \in messages :
        /\ m.chat = k
        /\ IF compare = "exact" THEN m.time > last * TicksPerSecond
                                ELSE m.time \div TicksPerSecond > last}

Init ==
    /\ compare \in {"exact", "seconds"}
    /\ members \in [Chats -> SUBSET Clients]
    /\ messages = {}
    /\ since = [c \in Clients |-> -1]
    /\ sync = [c \in Clients |-> NoSync]
    /\ received = [c \in Clients |-> [m \in Message |-> 0]]
    /\ owed = [c \in Clients |-> {}]
    /\ skipped = [c \in Clients |-> {}]
    /\ changes = 0 /\ failures = 0

(* A message is stamped and stored by one statement.  Anyone may send to   *)
(* any chat, and the sender has its message back at the next               *)
(* synchronisation like everybody else.                                    *)
SendMessage(c, k) ==
    /\ Free(c)
    /\ Cardinality(messages) < MaxMessages
    /\ \E t \in 1 .. MaxTime :
         /\ \A m \in messages : m.time < t
         /\ LET m == [time |-> t, chat |-> k] IN
            /\ messages' = messages \cup {m}
            /\ owed' = [d \in Clients |-> IF d \in members[k] THEN owed[d] \cup {m}
                                                              ELSE owed[d]]
    /\ UNCHANGED <<compare, members, since, sync, received, skipped, bounds>>

InviteToChat(c, k) ==
    /\ Free(c) /\ changes < MaxChanges
    /\ \E d \in Clients \ members[k] : members' = [members EXCEPT ![k] = @ \cup {d}]
    /\ changes' = changes + 1
    /\ UNCHANGED <<compare, messages, since, sync, received, owed, skipped, failures>>

KickFromChat(c, k) ==
    /\ Free(c) /\ changes < MaxChanges
    /\ \E d \in members[k] :
         /\ members' = [members EXCEPT ![k] = @ \ {d}]
         /\ owed' = [owed EXCEPT ![d] = {m \in @ : m.chat # k}]
    /\ changes' = changes + 1
    /\ UNCHANGED <<compare, messages, since, sync, received, skipped, failures>>

(* Statements fail for these chats: for none, or for some.                 *)
Failing(chats) ==
    \/ chats = {} /\ UNCHANGED failures
    \/ chats # {} /\ failures < MaxFailures /\ failures' = failures + 1

(* getChatsWithUnreadMessages: the chats of the user that have some.  When *)
(* getListOfChats fails there are none, and when hasUnreadMessages fails   *)
(* its chat has none.                                                      *)
Synchronize(c) ==
    /\ Free(c)
    /\ \E failed \in SUBSET {k \in Chats : c \in members[k] /\ Unread(k, since[c]) # {}} :
         /\ Failing(failed)
         /\ sync' = [sync EXCEPT ![c] =
                [running |-> TRUE, since |-> since[c], rows |-> {}, failed |-> failed,
                 todo |-> {k \in Chats : c \in members[k] /\ Unread(k, since[c]) # {}}
                            \ failed]]
    /\ UNCHANGED <<compare, members, messages, since, received, owed, skipped, changes>>

(* getUnreadMessages of one of these chats after the other; none come when *)
(* it fails.                                                               *)
GetUnreadMessages_FromTheStart(c) ==
    /\ sync[c].running
    /\ \E k \in sync[c].todo :
         \E failed \in SUBSET {k} :
            /\ Failing(failed)
            /\ sync' = [sync EXCEPT ![c].todo = @ \ {k},
                                    ![c].failed = @ \cup failed,
                                    ![c].rows = @ \cup IF k \in failed
                                                         THEN {} ELSE Unread(k, -1)]
    /\ UNCHANGED <<compare, members, messages, since, received, owed, skipped, changes>>
GetUnreadMessages(c) ==
    /\ sync[c].running
    /\ \E k \in sync[c].todo :
         \E failed \in SUBSET {k} :
            /\ Failing(failed)
            /\ sync' = [sync EXCEPT ![c].todo = @ \ {k},
                                    ![c].failed = @ \cup failed,
                                    ![c].rows = @ \cup IF k \in failed THEN {}
                                                         ELSE Unread(k, sync[c].since)]
    /\ UNCHANGED <<compare, members, messages, since, received, owed, skipped, changes>>

(* The client takes the answer and remembers the latest time in it.        *)
SendResponse(c) ==
    /\ sync[c].running /\ sync[c].todo = {}
    /\ sync' = [sync EXCEPT ![c] = NoSync]
    /\ received' = [received EXCEPT ![c] =
           [m \in Message |-> IF m \in sync[c].rows /\ @[m] < 2 THEN @[m] + 1 ELSE @[m]]]
    /\ since' = [since EXCEPT ![c] =
           Max({@} \cup {ToSecsSinceEpoch(m.time) : m \in sync[c].rows})]
    /\ skipped' = [skipped EXCEPT ![c] =
           @ \cup {m \in messages : m.chat \in sync[c].failed}]
    /\ UNCHANGED <<compare, members, messages, owed, bounds>>

(* The connection breaks and the answer with it; the client asks again.    *)
LoseResponse(c) ==
    /\ sync[c].running /\ sync[c].todo = {}
    /\ sync' = [sync EXCEPT ![c] = NoSync]
    /\ UNCHANGED <<compare, members, messages, since, received, owed, skipped, bounds>>

Next == \E c \in Clients :
    \/ \E k \in Chats : SendMessage(c, k) \/ InviteToChat(c, k) \/ KickFromChat(c, k)
    \/ Synchronize(c) \/ GetUnreadMessages(c) \/ SendResponse(c) \/ LoseResponse(c)

Spec == Init /\ [][Next]_vars

-----------------------------------------------------------------------------
TypeOK ==
    /\ compare \in {"exact", "seconds"}
    /\ members \in [Chats -> SUBSET Clients]
    /\ messages \subseteq Message
    /\ since \in [Clients -> -1 .. MaxTime]
    /\ sync \in [Clients -> Synchronization]
    /\ received \in [Clients -> [Message -> 0 .. 2]]
    /\ owed \in [Clients -> SUBSET Message]
    /\ skipped \in [Clients -> SUBSET Message]
    /\ changes \in 0 .. MaxChanges /\ failures \in 0 .. MaxFailures

(* If the database compares the time stamps themselves, only a statement   *)
(* that fails makes a client pass a message over: any other that a member  *)
(* has not received yet will be in its next synchronisation, although the  *)
(* client only remembers one time for all its chats, and that cut to whole *)
(* seconds.  It takes the whole synchronisation to be one moment: else a   *)
(* chat read early may miss a message older than one read later from       *)
(* another (server_worker.cpp:134-143, database_connection.cpp:251).  A    *)
(* chat left out by an answer may be passed over for ever, as the next     *)
(* chat's later message moves the time on (database_connection.cpp:171,    *)
(* 233-253).                                                               *)
NothingMissed ==
    compare = "exact" =>
        \A c \in Clients : \A m \in owed[c] :
            received[c][m] = 0 =>
                m \in Unread(m.chat, since[c]) \/ m \in skipped[c]

(* A message is received a second time only if the database compares time  *)
(* stamps, and only as long as the client has seen nothing of a later      *)
(* second (database_connection.cpp:243-251).                               *)
RepeatsAreOfTheLastSecond ==
    [][\A c \in Clients, m \in Message :
           received[c][m] > 0 /\ received'[c][m] > received[c][m] =>
               compare = "exact" /\ ToSecsSinceEpoch(m.time) = since[c]]_vars
=============================================================================
