----------------------- MODULE QueryProcessingProofs -----------------------
(***************************************************************************)
(* Theorems about QueryProcessing, for any clients, workers, queries and   *)
(* number of failing statements.                                           *)
(*                                                                         *)
(* All of them come from one inductive invariant, QueryInv.  Its base says *)
(* what a thread that is executing a query has in hand; the parts added to *)
(* it say what is true BETWEEN the two statements of a registration        *)
(* (AddressIsFree) and of a login (PasswordIsProven), and of a reply that  *)
(* is not sent yet (AnswersAreReal).  Each part is disturbed by another    *)
(* query only if two slots can overlap, which OneThread excludes.          *)
(***************************************************************************)
EXTENDS QueryProcessing, TLAPS

(* The slots of all connections run in the main thread.                    *)
LEMMA OneThread == \A t \in Threads : t = "main"
  BY DEF Threads, SlotThread

(* A thread that is at some statement executes a query.                    *)
LEMMA AtWork ==
  ASSUME TypeOK, NEW t \in Threads, job[t].step # "idle"
  PROVE  job[t] \in Job
  BY DEF TypeOK, Idle

(* The job k is the job j, come to step s.                                 *)
Continues(j, k, s) ==
    k \in Job /\ k.client = j.client /\ k.query = j.query /\ k.step = s

(* The ways a statement leaves its result in the job.                      *)
LEMMA JobContinues ==
  ASSUME NEW j \in Job, NEW s \in Steps, NEW n \in {0, 1}, NEW m \in Nat,
         NEW r \in SUBSET Nat, NEW r2 \in SUBSET Nat, NEW d \in BOOLEAN
  PROVE  /\ Continues(j, [j EXCEPT !.step = s], s)
         /\ Continues(j, [j EXCEPT !.step = s, !.code = n], s)
         /\ Continues(j, [j EXCEPT !.step = s, !.done = d], s)
         /\ Continues(j, [j EXCEPT !.step = s, !.number = m, !.done = d], s)
         /\ Continues(j, [j EXCEPT !.step = s, !.rows = r, !.done = d], s)
         /\ Continues(j, [j EXCEPT !.step = s, !.todo = r, !.done = d], s)
         /\ Continues(j, [j EXCEPT !.step = s, !.todo = r, !.found = r2, !.done = d], s)
         /\ Continues(j, [j EXCEPT !.step = s, !.found = r, !.rows = r2, !.done = d], s)
  BY DEF Job, Continues

(* The part of the type that is about the database.                        *)
StoreTyped ==
    /\ accounts \in Seq(Account)
    /\ chats \in Seq(SUBSET DOMAIN accounts)
    /\ messages \in Seq(Message)
    /\ \A m \in DOMAIN messages : /\ messages[m].chat \in DOMAIN chats
                                  /\ messages[m].sender \in DOMAIN accounts

(* A statement that never returns keeps the job it belongs to.             *)
LEMMA HangStops ==
  ASSUME TypeOK, NEW t \in Threads, Hang(t)
  PROVE  \E k \in Job : /\ \A u \in Threads : job'[u] = k
                        /\ k.client = job[t].client /\ k.query = job[t].query
                        /\ k.step = "hung" /\ job' = [job EXCEPT ![t] = k]
<1> DEFINE k == [job[t] EXCEPT !.step = "hung"]
<1>1. job[t] \in Job
  BY AtWork DEF Hang
<1>2. "hung" \in Steps
  BY DEF Steps
<1>3. k \in Job /\ k.client = job[t].client /\ k.query = job[t].query /\ k.step = "hung"
  BY <1>1, <1>2, JobContinues DEF Continues
<1>4. job' = [job EXCEPT ![t] = k]
  BY DEF Hang
<1> HIDE DEF k
<1>5. \A u \in Threads : job'[u] = k
  BY <1>4, OneThread DEF TypeOK
<1> QED BY <1>3, <1>4, <1>5

(* What is stored is numbered, and so are the answers to queries about it. *)
LEMMA StoredNumbers ==
  ASSUME StoreTyped
  PROVE  /\ DOMAIN accounts \subseteq Nat /\ DOMAIN chats \subseteq Nat
         /\ DOMAIN messages \subseteq Nat
         /\ \A k : ChatsOf(k) \subseteq Nat
         /\ \A k, since : Unread(k, since) \subseteq Nat
  BY DEF StoreTyped, ChatsOf, Unread

(* Where a scan of chats or messages leads.                                *)
Later == {"hasUnreadMessages", "getUnreadMessages", "reply"}

(* Every step the code can come to is one of Steps.                        *)
LEMMA StepNames ==
  /\ {"getUserId", "registerNewUser", "hasUnreadMessages",
      "getUnreadMessages", "reply", "hung"} \subseteq Steps
  /\ \A x \in DOMAIN FirstStep : FirstStep[x] \in Steps
  /\ "idle" \notin Steps
  /\ \A todo, found : SyncStep(todo, found) \in Steps
  /\ \A todo, found : SyncStep(todo, found) \in Later
  /\ "reply" \in Later
  BY DEF Steps, FirstStep, SyncStep, Later

(* The job of t comes to one of the steps S.                               *)
GoesTo(t, S) ==
    \E k \in Job, s \in S :
        Continues(job[t], k, s) /\ job' = [job EXCEPT ![t] = k]

Scans(t) == GetListOfChats(t) \/ HasUnreadMessages(t) \/ GetUnreadMessages(t)

(* All that a statement does outside the database and the identities.     *)
Advances(t) ==
    /\ job[t] \in Job
    /\ \/ VerifyLogIn(t) /\ GoesTo(t, {"getUserId", "reply"})
       \/ IsEmailAvailable(t) /\ GoesTo(t, {"registerNewUser", "reply"})
       \/ Scans(t) /\ GoesTo(t, Later)
       \/ Statement(t) /\ GoesTo(t, {"reply"})
    /\ UNCHANGED clients
    /\ failures' \in 0 .. MaxFailures

(* The bound on failing statements is kept.                                *)
LEMMA OutcomeCounts ==
  ASSUME TypeOK, failures' = failures \/ (failures < MaxFailures /\ failures' = failures + 1)
  PROVE  failures' \in 0 .. MaxFailures
  BY BoundsAssumption DEF TypeOK

(* Every statement leads to a next one or to the reply, for the same query *)
(* of the same client.                                                     *)
LEMMA StatementAdvances ==
  ASSUME TypeOK, NEW t \in Threads, Statement(t)
  PROVE  Advances(t)
<1>1. job[t] \in Job
  BY AtWork DEF Statement, At, VerifyLogIn, GetUserId, IsEmailAvailable,
     RegisterNewUser, GetListOfUsers, GetListOfChats, HasUnreadMessages,
     GetUnreadMessages, CreateNewChat, DeleteChat, InviteToChat, KickFromChat,
     SendMessage
<1>s. StoreTyped
  BY DEF TypeOK, StoreTyped
<1>f. failures' \in 0 .. MaxFailures
  BY OutcomeCounts DEF Statement, VerifyLogIn, GetUserId, IsEmailAvailable,
     RegisterNewUser, GetListOfUsers, GetListOfChats, HasUnreadMessages,
     GetUnreadMessages, CreateNewChat, DeleteChat, InviteToChat, KickFromChat,
     SendMessage, ChangeMembers, Outcome
<1>c. UNCHANGED clients
  BY DEF Statement, clients, VerifyLogIn, GetUserId, IsEmailAvailable,
     RegisterNewUser, GetListOfUsers, GetListOfChats, HasUnreadMessages,
     GetUnreadMessages, CreateNewChat, DeleteChat, InviteToChat, KickFromChat,
     SendMessage, ChangeMembers
<1> DEFINE j == job[t]
<1>2. ASSUME VerifyLogIn(t) PROVE GoesTo(t, {"getUserId", "reply"})
  <2>1. PICK got \in BOOLEAN : job' = [job EXCEPT ![t] =
                  IF got THEN [j EXCEPT !.step = "getUserId"]
                         ELSE [j EXCEPT !.step = "reply", !.code = 1]]
    BY <1>2 DEF VerifyLogIn
  <2>2. Continues(j, [j EXCEPT !.step = "getUserId"], "getUserId")
    BY <1>1, JobContinues, StepNames
  <2>3. Continues(j, [j EXCEPT !.step = "reply", !.code = 1], "reply")
    BY <1>1, JobContinues, StepNames
  <2> QED BY <2>1, <2>2, <2>3 DEF GoesTo, Continues
<1>3. ASSUME GetUserId(t) PROVE GoesTo(t, {"reply"})
  <2>1. PICK got \in 0 .. Len(accounts) : job' = [job EXCEPT ![t] =
                [j EXCEPT !.step = "reply", !.number = got, !.done = got # 0]]
    BY <1>3 DEF GetUserId
  <2>2. got \in Nat /\ (got # 0) \in BOOLEAN
    BY <1>s DEF StoreTyped
  <2>3. Continues(j, [j EXCEPT !.step = "reply", !.number = got, !.done = got # 0], "reply")
    BY <1>1, <2>2, JobContinues, StepNames
  <2> QED BY <2>1, <2>3 DEF GoesTo, Continues
<1>4. ASSUME IsEmailAvailable(t) PROVE GoesTo(t, {"registerNewUser", "reply"})
  <2>1. PICK got \in BOOLEAN : job' = [job EXCEPT ![t] =
                  IF got THEN [j EXCEPT !.step = "registerNewUser"]
                  ELSE [j EXCEPT !.step = "reply", !.code = 1]]
    BY <1>4, <1>s, StoredNumbers DEF IsEmailAvailable
  <2>2. Continues(j, [j EXCEPT !.step = "registerNewUser"], "registerNewUser")
    BY <1>1, JobContinues, StepNames
  <2>3. Continues(j, [j EXCEPT !.step = "reply", !.code = 1], "reply")
    BY <1>1, JobContinues, StepNames
  <2> QED BY <2>1, <2>2, <2>3 DEF GoesTo, Continues
<1>5. ASSUME RegisterNewUser(t) PROVE GoesTo(t, {"reply"})
  <2>1. PICK n \in {0, 1} :
          job' = [job EXCEPT ![t] = [j EXCEPT !.step = "reply", !.code = n]]
    BY <1>5, <1>s, StoredNumbers DEF RegisterNewUser
  <2>2. Continues(j, [j EXCEPT !.step = "reply", !.code = n], "reply")
    BY <1>1, JobContinues, StepNames
  <2> QED BY <2>1, <2>2 DEF GoesTo, Continues
<1>6. ASSUME GetListOfUsers(t) PROVE GoesTo(t, {"reply"})
  <2>1. PICK r \in SUBSET Nat, d \in BOOLEAN :
          job' = [job EXCEPT ![t] = [j EXCEPT !.step = "reply", !.rows = r, !.done = d]]
    BY <1>6, <1>s, StoredNumbers DEF GetListOfUsers, Clean
  <2>2. Continues(j, [j EXCEPT !.step = "reply", !.rows = r, !.done = d], "reply")
    BY <1>1, JobContinues, StepNames
  <2> QED BY <2>1, <2>2 DEF GoesTo, Continues
<1>7. ASSUME GetListOfChats(t) PROVE GoesTo(t, Later)
  <2>1. PICK got \in SUBSET Nat, d \in BOOLEAN : job' = [job EXCEPT ![t] =
                  IF j.query.type = "chats"
                  THEN [j EXCEPT !.step = "reply", !.rows = got, !.done = d]
                  ELSE [j EXCEPT !.step = SyncStep(got, {}), !.todo = got, !.done = d]]
    <3> DEFINE own == ChatsOf(userId[j.client])
               Told(got, d) == IF j.query.type = "chats"
                  THEN [j EXCEPT !.step = "reply", !.rows = got, !.done = d]
                  ELSE [j EXCEPT !.step = SyncStep(got, {}), !.todo = got, !.done = d]
    <3>1. PICK got \in {own, {}} : job' = [job EXCEPT ![t] = Told(got, Clean)]
      BY <1>7 DEF GetListOfChats
    <3>2. got \in SUBSET Nat
      BY <1>s, StoredNumbers
    <3>3. Clean \in BOOLEAN
      BY DEF Clean
    <3> HIDE DEF Told
    <3>4. \E g \in SUBSET Nat, d \in BOOLEAN : job' = [job EXCEPT ![t] = Told(g, d)]
      BY <3>1, <3>2, <3>3
    <3>5. QED BY <3>4 DEF Told
  <2>2. Continues(j, [j EXCEPT !.step = "reply", !.rows = got, !.done = d], "reply")
    BY <1>1, JobContinues, StepNames
  <2>3. Continues(j, [j EXCEPT !.step = SyncStep(got, {}), !.todo = got, !.done = d], SyncStep(got, {}))
    BY <1>1, JobContinues, StepNames
  <2> QED BY <2>1, <2>2, <2>3, StepNames DEF GoesTo, Continues
<1>8. ASSUME HasUnreadMessages(t) PROVE GoesTo(t, Later)
  <2>1. PICK todo \in SUBSET Nat, found \in SUBSET Nat, d \in BOOLEAN :
          job' = [job EXCEPT ![t] =
            [j EXCEPT !.step = SyncStep(todo, found), !.todo = todo,
                      !.found = found, !.done = d]]
    <3>1. PICK k \in j.todo, got \in BOOLEAN :
            job' = [job EXCEPT ![t] =
              [j EXCEPT !.step = SyncStep(j.todo \ {k}, IF got THEN j.found \cup {k} ELSE j.found),
                        !.todo = j.todo \ {k},
                        !.found = IF got THEN j.found \cup {k} ELSE j.found,
                        !.done = @ /\ Clean]]
      BY <1>8 DEF HasUnreadMessages
    <3>2. /\ j.todo \ {k} \in SUBSET Nat
          /\ (IF got THEN j.found \cup {k} ELSE j.found) \in SUBSET Nat
          /\ (j.done /\ Clean) \in BOOLEAN
      BY <1>1 DEF Job
    <3> QED BY <3>1, <3>2
  <2>2. Continues(j, [j EXCEPT !.step = SyncStep(todo, found), !.todo = todo,
                               !.found = found, !.done = d], SyncStep(todo, found))
    BY <1>1, JobContinues, StepNames
  <2> QED BY <2>1, <2>2, StepNames DEF GoesTo, Continues
<1>9. ASSUME GetUnreadMessages(t) PROVE GoesTo(t, Later)
  <2>1. PICK found \in SUBSET Nat, rows \in SUBSET Nat, d \in BOOLEAN :
          job' = [job EXCEPT ![t] =
            [j EXCEPT !.step = SyncStep({}, found), !.found = found,
                      !.rows = rows, !.done = d]]
    <3>1. PICK k \in j.found, got \in SUBSET Nat :
            job' = [job EXCEPT ![t] =
              [j EXCEPT !.step = SyncStep({}, j.found \ {k}), !.found = j.found \ {k},
                        !.rows = @ \cup got, !.done = @ /\ Clean]]
      BY <1>9, <1>s, StoredNumbers DEF GetUnreadMessages
    <3>2. /\ j.found \ {k} \in SUBSET Nat
          /\ j.rows \cup got \in SUBSET Nat
          /\ (j.done /\ Clean) \in BOOLEAN
      BY <1>1 DEF Job
    <3> QED BY <3>1, <3>2
  <2>2. Continues(j, [j EXCEPT !.step = SyncStep({}, found), !.found = found,
                               !.rows = rows, !.done = d], SyncStep({}, found))
    BY <1>1, JobContinues, StepNames
  <2> QED BY <2>1, <2>2, StepNames DEF GoesTo, Continues
<1>10. ASSUME CreateNewChat(t) PROVE GoesTo(t, {"reply"})
  <2>1. PICK m \in Nat : job' = [job EXCEPT ![t] =
                [j EXCEPT !.step = "reply", !.number = m, !.done = m # 0]]
    <3>1. Len(chats) + 1 \in Nat /\ Len(messages) + 1 \in Nat
      BY <1>s DEF StoreTyped
    <3> QED BY <1>10, <3>1 DEF CreateNewChat
  <2>2. (m # 0) \in BOOLEAN
    OBVIOUS
  <2>3. Continues(j, [j EXCEPT !.step = "reply", !.number = m, !.done = m # 0], "reply")
    BY <1>1, <2>2, JobContinues, StepNames
  <2> QED BY <2>1, <2>3 DEF GoesTo, Continues
<1>11. ASSUME SendMessage(t) PROVE GoesTo(t, {"reply"})
  <2>1. PICK m \in Nat : job' = [job EXCEPT ![t] =
                [j EXCEPT !.step = "reply", !.number = m, !.done = m # 0]]
    <3>1. Len(chats) + 1 \in Nat /\ Len(messages) + 1 \in Nat
      BY <1>s DEF StoreTyped
    <3> QED BY <1>11, <3>1 DEF SendMessage
  <2>2. (m # 0) \in BOOLEAN
    OBVIOUS
  <2>3. Continues(j, [j EXCEPT !.step = "reply", !.number = m, !.done = m # 0], "reply")
    BY <1>1, <2>2, JobContinues, StepNames
  <2> QED BY <2>1, <2>3 DEF GoesTo, Continues
<1>12. ASSUME DeleteChat(t) \/ InviteToChat(t) \/ KickFromChat(t)
       PROVE GoesTo(t, {"reply"})
  <2>1. PICK d \in BOOLEAN :
          job' = [job EXCEPT ![t] = [j EXCEPT !.step = "reply", !.done = d]]
    BY <1>12 DEF DeleteChat, InviteToChat, KickFromChat, ChangeMembers
  <2>2. Continues(j, [j EXCEPT !.step = "reply", !.done = d], "reply")
    BY <1>1, JobContinues, StepNames
  <2> QED BY <2>1, <2>2 DEF GoesTo, Continues
<1> QED
  BY <1>1, <1>f, <1>c, <1>2, <1>3, <1>4, <1>5, <1>6, <1>7, <1>8, <1>9, <1>10,
     <1>11, <1>12 DEF Statement, Scans, Advances

(* A statement at work belongs to the query it was started for.            *)
Dispatched ==
    \A t \in Threads :
        /\ job[t].step \in {"isEmailAvailable", "registerNewUser"} =>
             job[t].query.type = "registration"
        /\ job[t].step \in {"verifyLogIn", "getUserId"} =>
             job[t].query.type = "login"
        /\ job[t].step = "createNewChat" => job[t].query.type = "create"
        /\ job[t].step = "sendMessage" => job[t].query.type = "send"
        /\ job[t].step \in {"getListOfUsers", "getListOfChats", "hasUnreadMessages",
                            "getUnreadMessages", "deleteChat", "inviteToChat",
                            "kickFromChat"} =>
             job[t].query.type \notin {"registration", "create", "send"}

(* Nothing stored is ever lost.                                            *)
Grows ==
    /\ \A a \in DOMAIN accounts : a \in DOMAIN accounts' /\ accounts'[a] = accounts[a]
    /\ \A k \in DOMAIN chats : k \in DOMAIN chats'
    /\ \A m \in DOMAIN messages : m \in DOMAIN messages' /\ messages'[m] = messages[m]

(* A statement adds to the database or leaves it alone.                    *)
LEMMA StoreStep ==
  ASSUME TypeOK, Dispatched, NEW t \in Threads, Statement(t)
  PROVE  StoreTyped' /\ Grows
<1>s. StoreTyped
  BY DEF TypeOK, StoreTyped
<1>1. CASE UNCHANGED database
  BY <1>1, <1>s DEF StoreTyped, Grows, database
<1>2. CASE RegisterNewUser(t)
  <2> DEFINE account == [email |-> job[t].query.email, password |-> job[t].query.password]
  <2>1. job[t].query \in Credentialed
    <3>1. job[t] \in Job
      BY <1>2, AtWork DEF RegisterNewUser, At
    <3>2. job[t].query.type = "registration"
      BY <1>2 DEF RegisterNewUser, At, Dispatched
    <3> QED BY <3>1, <3>2 DEF Credentialed, Job
  <2>2. account \in Account
    BY <2>1 DEF Account
  <2>3. \/ UNCHANGED database
        \/ accounts' = Append(accounts, account) /\ UNCHANGED <<chats, messages>>
    BY <1>2 DEF RegisterNewUser, Outcome
  <2>4. CASE accounts' = Append(accounts, account) /\ UNCHANGED <<chats, messages>>
    <3>1. accounts' \in Seq(Account) /\ DOMAIN accounts \subseteq DOMAIN accounts'
      BY <2>2, <2>4, <1>s DEF StoreTyped
    <3>2. \A a \in DOMAIN accounts : accounts'[a] = accounts[a]
      BY <2>2, <2>4, <1>s DEF StoreTyped
    <3>3. chats \in Seq(SUBSET DOMAIN accounts')
      BY <3>1, <1>s DEF StoreTyped
    <3> QED BY <2>4, <3>1, <3>2, <3>3, <1>s DEF StoreTyped, Grows
  <2> QED BY <1>1, <2>3, <2>4
<1>n. Len(chats) + 1 # 0 /\ Len(messages) + 1 # 0
  BY <1>s DEF StoreTyped
<1>3. CASE CreateNewChat(t)
  <2> DEFINE owner == userId[job[t].client]
  <2>1. \/ UNCHANGED database
        \/ /\ owner \in DOMAIN accounts
           /\ chats' = Append(chats, {owner})
           /\ UNCHANGED <<accounts, messages>>
    BY <1>3, <1>n DEF CreateNewChat, Outcome, database
  <2>2. CASE /\ owner \in DOMAIN accounts
             /\ chats' = Append(chats, {owner})
             /\ UNCHANGED <<accounts, messages>>
    <3>1. /\ chats' \in Seq(SUBSET DOMAIN accounts)
          /\ \A k \in DOMAIN chats : k \in DOMAIN chats'
      BY <2>2, <1>s DEF StoreTyped
    <3> QED BY <2>2, <3>1, <1>s DEF StoreTyped, Grows
  <2> QED BY <1>1, <2>1, <2>2
<1>4. CASE SendMessage(t)
  <2> DEFINE k == job[t].query.chat
             sender == userId[job[t].client]
             message == [chat |-> k, sender |-> sender, via |-> job[t].client]
  <2>1. \/ UNCHANGED database
        \/ /\ Exists(sender, k)
           /\ messages' = Append(messages, message)
           /\ UNCHANGED <<accounts, chats>>
    BY <1>4, <1>n DEF SendMessage, Outcome, database
  <2>2. CASE /\ Exists(sender, k)
             /\ messages' = Append(messages, message)
             /\ UNCHANGED <<accounts, chats>>
    <3>1. job[t].client \in Connections
      BY <1>4, AtWork DEF SendMessage, At, Job
    <3>2. sender \in DOMAIN accounts /\ k \in DOMAIN chats
      BY <2>2 DEF Exists
    <3>3. message \in Message
      BY <3>1, <3>2, <1>s, StoredNumbers DEF Message
    <3>4. /\ messages' \in Seq(Message)
          /\ \A m \in DOMAIN messages : m \in DOMAIN messages' /\ messages'[m] = messages[m]
          /\ \A m \in DOMAIN messages' : m \in DOMAIN messages \/ messages'[m] = message
      BY <3>3, <2>2, <1>s DEF StoreTyped
    <3>5. \A m \in DOMAIN messages' : /\ messages'[m].chat \in DOMAIN chats
                                      /\ messages'[m].sender \in DOMAIN accounts
      BY <3>2, <3>4, <1>s DEF StoreTyped
    <3> QED BY <2>2, <3>4, <3>5, <1>s DEF StoreTyped, Grows
  <2> QED BY <1>1, <2>1, <2>2
<1>5. CASE DeleteChat(t) \/ InviteToChat(t) \/ KickFromChat(t)
  <2>1. \/ UNCHANGED database
        \/ /\ \E k \in DOMAIN chats, members \in SUBSET DOMAIN accounts :
                 chats' = [chats EXCEPT ![k] = members]
           /\ UNCHANGED <<accounts, messages>>
    <3> DEFINE k == job[t].query.chat
               user == job[t].query.user
    <3>1. k \in DOMAIN chats => chats[k] \subseteq DOMAIN accounts
      BY <1>s DEF StoreTyped
    <3>2. CASE DeleteChat(t)
      BY <3>2, <3>1 DEF DeleteChat, ChangeMembers, Outcome, database
    <3>3. CASE InviteToChat(t)
      <4>1. Exists(user, k) => k \in DOMAIN chats /\ chats[k] \cup {user} \in SUBSET DOMAIN accounts
        BY <3>1 DEF Exists
      <4> QED BY <3>3, <4>1 DEF InviteToChat, ChangeMembers, Outcome, database
    <3>4. CASE KickFromChat(t)
      BY <3>4, <3>1 DEF KickFromChat, ChangeMembers, Outcome, database
    <3> QED BY <1>5, <3>2, <3>3, <3>4
  <2>2. ASSUME NEW k \in DOMAIN chats, NEW members \in SUBSET DOMAIN accounts,
               chats' = [chats EXCEPT ![k] = members], UNCHANGED <<accounts, messages>>
        PROVE  StoreTyped' /\ Grows
    <3>1. chats' \in Seq(SUBSET DOMAIN accounts) /\ DOMAIN chats' = DOMAIN chats
      BY <2>2, <1>s DEF StoreTyped
    <3> QED BY <2>2, <3>1, <1>s DEF StoreTyped, Grows
  <2> QED BY <1>1, <2>1, <2>2
<1> QED
  BY <1>1, <1>2, <1>3, <1>4, <1>5 DEF Statement, VerifyLogIn, GetUserId,
     IsEmailAvailable, GetListOfUsers, GetListOfChats, HasUnreadMessages,
     GetUnreadMessages, Outcome, Reads

(* Each client is owed at most the reply it waits for.                     *)
Owed ==
    /\ \A c \in Connections : waiting[c] # NoQuery => answered[c] < asked[c]
    /\ \A t \in Threads : job[t] # Idle => waiting[job[t].client] = job[t].query

(* "Nothing to process" is not a query.                                    *)
LEMMA NoQueryIsNone == NoQuery \notin Queries
  BY QueriesAssumption DEF NoQuery, QueryTypes

(* What holds without any regard to the order of statements.               *)
BaseInv == TypeOK /\ Dispatched /\ Owed

(* After a statement the one thread there is has the same job further on.  *)
LEMMA StatementMoves ==
  ASSUME BaseInv, NEW t \in Threads, Statement(t)
  PROVE  \E k \in Job : /\ job' = [job EXCEPT ![t] = k]
                        /\ \A u \in Threads : job'[u] = k
                        /\ k.client = job[t].client /\ k.query = job[t].query
                        /\ \/ k.step = "getUserId" /\ VerifyLogIn(t)
                           \/ k.step = "registerNewUser" /\ IsEmailAvailable(t)
                           \/ k.step \in Later /\ Scans(t)
                           \/ k.step = "reply"
<1>1. Advances(t)
  BY StatementAdvances DEF BaseInv
<1>2. \A k : job' = [job EXCEPT ![t] = k] => \A u \in Threads : job'[u] = k
  BY OneThread DEF BaseInv, TypeOK
<1> QED BY <1>1, <1>2, StepNames DEF Advances, GoesTo, Continues

(* Types, owed replies and the kinds of the queries at work are kept.      *)
LEMMA BaseStep == BaseInv /\ [Next]_vars => BaseInv'
<1> SUFFICES ASSUME BaseInv, [Next]_vars PROVE BaseInv'
  OBVIOUS
<1>t. TypeOK /\ Dispatched /\ Owed /\ StoreTyped
  BY DEF BaseInv, TypeOK, StoreTyped
<1>1. ASSUME NEW c \in Connections, Ask(c) PROVE BaseInv'
  <2>1. PICK q \in Queries : waiting' = [waiting EXCEPT ![c] = q]
    BY <1>1 DEF Ask
  <2>2. \A d \in Connections : answered'[d] <= asked'[d]
    BY <1>t, <1>1, BoundsAssumption DEF Ask, TypeOK
  <2>3. asked' \in [Connections -> 0 .. MaxQueries]
    BY <1>t, <1>1, BoundsAssumption DEF Ask, TypeOK
  <2>4. TypeOK'
    BY <1>t, <1>1, <2>1, <2>2, <2>3 DEF Ask, TypeOK, database, identity
  <2>5. Owed'
    <3>1. \A d \in Connections : waiting'[d] # NoQuery => answered'[d] < asked'[d]
      BY <1>t, <1>1, <2>1 DEF Ask, TypeOK, Owed
    <3>2. \A t \in Threads : job'[t] # Idle => waiting'[job'[t].client] = job'[t].query
      <4> TAKE t \in Threads
      <4> HAVE job'[t] # Idle
      <4>1. job[t] \in Job /\ job'[t] = job[t]
        BY <1>t, <1>1 DEF Ask, TypeOK
      <4>2. waiting[job[t].client] = job[t].query /\ job[t].query # NoQuery
        BY <1>t, <4>1, NoQueryIsNone DEF Owed, Job
      <4>3. job[t].client # c
        BY <1>1, <4>2 DEF Ask
      <4> QED BY <1>t, <4>1, <4>2, <4>3, <2>1 DEF TypeOK, Job
    <3> QED BY <3>1, <3>2 DEF Owed
  <2> QED BY <1>t, <1>1, <2>4, <2>5 DEF BaseInv, Dispatched, Ask
<1>2. ASSUME NEW c \in Connections, ProcessQuery(c) PROVE BaseInv'
  <2> DEFINE t == SlotThread(c)
             q == waiting[c]
  <2>t. t \in Threads /\ job[t] = Idle /\ q \in Queries
    BY <1>2, <1>t DEF ProcessQuery, Threads, TypeOK
  <2>1. CASE q.type \in DOMAIN FirstStep
    <3> DEFINE k == [step |-> FirstStep[q.type], client |-> c, query |-> q,
                     code |-> 0, number |-> 0, rows |-> {}, todo |-> {},
                     found |-> {}, done |-> TRUE]
    <3>1. job' = [job EXCEPT ![t] = k] /\ UNCHANGED waiting
      BY <1>2, <2>1 DEF ProcessQuery
    <3>2. k \in Job
      BY <2>t, <2>1, StepNames DEF Job
    <3>3. job' \in [Threads -> Job \cup {Idle}]
      BY <3>1, <3>2, <1>t DEF TypeOK
    <3>4. TypeOK'
      BY <1>2, <1>t, <3>1, <3>3 DEF ProcessQuery, TypeOK, database, identity
    <3>5. Owed'
      BY <1>2, <1>t, <2>t, <3>1 DEF ProcessQuery, Owed, TypeOK
    <3>6. Dispatched'
      <4> HIDE DEF k
      <4>1. k.step = FirstStep[q.type] /\ k.query = q
        BY DEF k
      <4> QED BY <1>t, <2>1, <3>1, <4>1 DEF Dispatched, FirstStep, TypeOK
    <3> QED BY <3>4, <3>5, <3>6 DEF BaseInv
  <2>2. CASE q.type \notin DOMAIN FirstStep
    <3>1. waiting' = [waiting EXCEPT ![c] = NoQuery] /\ UNCHANGED job
      BY <1>2, <2>2 DEF ProcessQuery
    <3>2. \A u \in Threads : job[u] = Idle
      BY <2>t, OneThread DEF SlotThread
    <3>3. TypeOK'
      BY <1>2, <1>t, <3>1 DEF ProcessQuery, TypeOK, database, identity
    <3>4. Owed'
      BY <1>2, <1>t, <3>1, <3>2 DEF ProcessQuery, Owed, TypeOK
    <3> QED BY <1>t, <3>1, <3>3, <3>4 DEF BaseInv, Dispatched
  <2> QED BY <2>1, <2>2
<1>3. ASSUME NEW t \in Threads, SendResponse(t) PROVE BaseInv'
  <2> DEFINE c == job[t].client
  <2>1. job[t] \in Job /\ c \in Connections /\ job[t] # Idle
    BY <1>3, <1>t, AtWork DEF SendResponse, Job, Idle
  <2>2. waiting[c] # NoQuery /\ answered[c] < asked[c]
    BY <2>1, <1>t, NoQueryIsNone DEF Owed, Job
  <2>3. /\ job' = [job EXCEPT ![t] = Idle]
        /\ answered' = [answered EXCEPT ![c] = @ + 1]
        /\ waiting' = [waiting EXCEPT ![c] = NoQuery]
        /\ UNCHANGED <<database, identity, asked, failures>>
    BY <1>3 DEF SendResponse
  <2>4. \A u \in Threads : job'[u] = Idle
    BY <2>3, <1>t, OneThread DEF TypeOK
  <2>5. /\ answered' \in [Connections -> Nat]
        /\ \A d \in Connections : answered'[d] <= asked'[d]
    BY <2>1, <2>2, <2>3, <1>t, BoundsAssumption DEF TypeOK
  <2>r. reply' \in [Connections -> Reply \cup {[query |-> NoQuery]}]
    <3>1. PICK r : r \in Reply /\ reply' = [reply EXCEPT ![c] = r]
      BY <1>3, <2>1 DEF SendResponse, Reply, Job
    <3> QED BY <2>1, <3>1, <1>t DEF TypeOK
  <2>6. TypeOK'
    BY <2>1, <2>3, <2>4, <2>5, <2>r, <1>t DEF TypeOK, database, identity
  <2>7. Owed'
    BY <2>1, <2>3, <2>4, <1>t DEF Owed, TypeOK
  <2>8. Dispatched'
    BY <2>4 DEF Dispatched, Idle
  <2> QED BY <2>6, <2>7, <2>8 DEF BaseInv
<1>4. ASSUME NEW t \in Threads, Statement(t) PROVE BaseInv'
  <2>1. Advances(t)
    BY <1>4, <1>t, StatementAdvances
  <2>2. StoreTyped' /\ Grows
    BY <1>4, <1>t, StoreStep
  <2>3. PICK k \in Job : /\ job' = [job EXCEPT ![t] = k]
                         /\ \A u \in Threads : job'[u] = k
                         /\ k.client = job[t].client /\ k.query = job[t].query
                         /\ \/ k.step = "getUserId" /\ VerifyLogIn(t)
                            \/ k.step = "registerNewUser" /\ IsEmailAvailable(t)
                            \/ k.step \in Later /\ Scans(t)
                            \/ k.step = "reply"
    BY <1>4, StatementMoves
  <2>4. /\ userId' \in [Connections -> Nat]
        /\ loggedIn' \in [Connections -> BOOLEAN]
        /\ proven' \in [Connections -> SUBSET DOMAIN accounts']
    <3>1. proven \in [Connections -> SUBSET DOMAIN accounts']
      BY <1>t, <2>2 DEF Grows, TypeOK
    <3>2. CASE VerifyLogIn(t)
      <4>1. PICK got \in BOOLEAN : proven' = [proven EXCEPT ![job[t].client] =
              IF got THEN @ \cup Known(job[t].query.email, job[t].query.password) ELSE @]
        BY <3>2 DEF VerifyLogIn
      <4>2. UNCHANGED <<userId, loggedIn, accounts>>
        BY <3>2 DEF VerifyLogIn, Outcome, Reads, database
      <4>3. Known(job[t].query.email, job[t].query.password) \subseteq DOMAIN accounts
        BY DEF Known
      <4> QED BY <1>t, <4>1, <4>2, <4>3 DEF TypeOK
    <3>3. CASE GetUserId(t)
      <4>1. PICK got \in 0 .. Len(accounts) :
              /\ userId' = [userId EXCEPT ![job[t].client] = got]
              /\ loggedIn' = [loggedIn EXCEPT ![job[t].client] = TRUE]
              /\ UNCHANGED proven
        BY <3>3 DEF GetUserId
      <4>2. got \in Nat
        BY <1>t DEF StoreTyped
      <4> QED BY <3>1, <4>1, <4>2, <1>t DEF TypeOK
    <3>4. CASE UNCHANGED identity
      BY <3>1, <3>4, <1>t DEF identity, TypeOK
    <3> QED BY <1>4, <3>2, <3>3, <3>4 DEF Statement, IsEmailAvailable,
      RegisterNewUser, GetListOfUsers, GetListOfChats, HasUnreadMessages,
      GetUnreadMessages, CreateNewChat, DeleteChat, InviteToChat,
      KickFromChat, SendMessage, ChangeMembers
  <2>5. TypeOK'
    BY <2>1, <2>2, <2>3, <2>4, <1>t DEF TypeOK, StoreTyped, Advances, clients
  <2>6. Owed'
    <3>1. UNCHANGED <<waiting, asked, answered>> /\ job[t] \in Job
      BY <2>1 DEF Advances, clients
    <3>2. waiting[job[t].client] = job[t].query
      BY <3>1, <1>t, StepNames DEF Owed, Job, Idle
    <3>3. \A u \in Threads : waiting'[job'[u].client] = job'[u].query
      BY <3>1, <3>2, <2>3
    <3> QED BY <3>1, <3>3, <1>t DEF Owed
  <2>7. Dispatched'
    <3>2. VerifyLogIn(t) => k.query.type = "login"
      BY <2>3, <1>t DEF VerifyLogIn, At, Dispatched
    <3>3. IsEmailAvailable(t) => k.query.type = "registration"
      BY <2>3, <1>t DEF IsEmailAvailable, At, Dispatched
    <3>4. Scans(t) => k.query.type \notin {"registration", "create", "send"}
      BY <2>3, <1>t DEF Scans, GetListOfChats, HasUnreadMessages,
         GetUnreadMessages, At, Dispatched
    <3> QED BY <2>3, <3>2, <3>3, <3>4 DEF Later, Dispatched
  <2> QED BY <2>5, <2>6, <2>7 DEF BaseInv
<1>5. CASE UNCHANGED vars
  BY <1>5, <1>t DEF BaseInv, TypeOK, Dispatched, Owed, vars, database, identity, clients
<1>6. ASSUME NEW t \in Threads, Hang(t) PROVE BaseInv'
  <2>1. PICK k \in Job : /\ \A u \in Threads : job'[u] = k
                         /\ k.client = job[t].client /\ k.query = job[t].query
                         /\ k.step = "hung" /\ job' = [job EXCEPT ![t] = k]
    BY <1>6, <1>t, HangStops
  <2>2. UNCHANGED <<database, identity, clients, failures>>
    BY <1>6 DEF Hang
  <2>3. TypeOK'
    BY <2>1, <2>2, <1>t DEF TypeOK, database, identity, clients
  <2>4. Dispatched'
    BY <2>1 DEF Dispatched
  <2>5. waiting[job[t].client] = job[t].query
    BY <1>6, <1>t DEF Hang, Owed, Idle
  <2>6. Owed'
    BY <2>1, <2>2, <2>5, <1>t DEF Owed, clients
  <2> QED BY <2>3, <2>4, <2>6 DEF BaseInv
<1> QED
  BY <1>1, <1>2, <1>3, <1>4, <1>5, <1>6 DEF Next, Slot

(* Between the check of an address and its registration nobody else        *)
(* registers it.                                                           *)
AddressIsFree ==
    \A t \in Threads :
        job[t].step = "registerNewUser" => AccountsOf(job[t].query.email) = {}

(* What makes an address belong to one account.                            *)
AccountsInv == AddressIsFree /\ EmailUnique

(* No step gives an address a second account.                              *)
LEMMA AccountsStep == BaseInv /\ AccountsInv /\ [Next]_vars => AccountsInv'
<1> SUFFICES ASSUME BaseInv, AccountsInv, [Next]_vars PROVE AccountsInv'
  OBVIOUS
<1>t. TypeOK /\ Dispatched /\ StoreTyped
  BY DEF BaseInv, TypeOK, StoreTyped
<1>1. CASE /\ UNCHANGED accounts
           /\ \A t \in Threads : job'[t] = job[t] \/ job'[t].step # "registerNewUser"
  BY <1>1 DEF AccountsInv, AddressIsFree, EmailUnique, AccountsOf
<1>2. ASSUME NEW c \in Connections, Ask(c) PROVE AccountsInv'
  BY <1>1, <1>2 DEF Ask, database
<1>3. ASSUME NEW c \in Connections, ProcessQuery(c) PROVE AccountsInv'
  BY <1>1, <1>3, <1>t DEF ProcessQuery, database, TypeOK, FirstStep
<1>4. ASSUME NEW t \in Threads, SendResponse(t) PROVE AccountsInv'
  BY <1>1, <1>4, <1>t DEF SendResponse, database, TypeOK, Idle
<1>5. ASSUME NEW t \in Threads, Statement(t) PROVE AccountsInv'
  <2>1. PICK k \in Job : /\ \A u \in Threads : job'[u] = k
                         /\ k.client = job[t].client /\ k.query = job[t].query
                         /\ \/ k.step = "getUserId" /\ VerifyLogIn(t)
                            \/ k.step = "registerNewUser" /\ IsEmailAvailable(t)
                            \/ k.step \in Later /\ Scans(t)
                            \/ k.step = "reply"
    BY <1>5, StatementMoves
  <2>2. CASE IsEmailAvailable(t)
    <3>1. UNCHANGED accounts
      BY <2>2 DEF IsEmailAvailable, Outcome, Reads, database
    <3>2. job[t] \in Job
      BY <2>2, <1>t, AtWork DEF IsEmailAvailable, At
    <3>3. k.step = "registerNewUser" => AccountsOf(job[t].query.email) = {}
      <4>1. PICK got \in BOOLEAN :
              /\ got = (AccountsOf(job[t].query.email) = {}) \/ got = FALSE
              /\ job' = [job EXCEPT ![t] =
                   IF got THEN [job[t] EXCEPT !.step = "registerNewUser"]
                          ELSE [job[t] EXCEPT !.step = "reply", !.code = 1]]
        BY <2>2 DEF IsEmailAvailable, Outcome
      <4>2. got \/ job'[t].step = "reply"
        <5>1. Continues(job[t], [job[t] EXCEPT !.step = "reply", !.code = 1], "reply")
          BY <3>2, JobContinues, StepNames
        <5>2. ~ got => job'[t] = [job[t] EXCEPT !.step = "reply", !.code = 1]
          BY <4>1, <1>t DEF TypeOK
        <5> QED BY <5>1, <5>2 DEF Continues
      <4> QED BY <4>1, <4>2, <2>1
    <3> QED BY <2>1, <3>1, <3>3 DEF AccountsInv, AddressIsFree, EmailUnique, AccountsOf
  <2>3. CASE RegisterNewUser(t)
    <3> DEFINE account == [email |-> job[t].query.email, password |-> job[t].query.password]
    <3>1. \/ UNCHANGED accounts
          \/ accounts' = Append(accounts, account)
      BY <2>3 DEF RegisterNewUser, Outcome, database
    <3>2. k.step # "registerNewUser"
      <4>1. ~ IsEmailAvailable(t)
        BY <2>3 DEF RegisterNewUser, IsEmailAvailable, At
      <4> QED BY <2>1, <4>1 DEF Later
    <3>3. \A a \in DOMAIN accounts : accounts[a].email # account.email
      BY <2>3 DEF RegisterNewUser, At, AccountsInv, AddressIsFree, AccountsOf
    <3>4. CASE accounts' = Append(accounts, account)
      <4>1. \A a \in DOMAIN accounts' :
              \/ a \in DOMAIN accounts /\ accounts'[a] = accounts[a]
              \/ a = Len(accounts) + 1 /\ accounts'[a] = account
        BY <3>4, <1>t DEF StoreTyped
      <4>2. EmailUnique'
        BY <4>1, <3>3 DEF EmailUnique, AccountsInv
      <4> QED BY <4>2, <2>1, <3>2 DEF AccountsInv, AddressIsFree
    <3> QED BY <1>1, <2>1, <3>1, <3>2, <3>4
  <2>4. CASE UNCHANGED accounts /\ k.step # "registerNewUser"
    BY <1>1, <2>1, <2>4
  <2> QED BY <1>5, <2>1, <2>2, <2>3, <2>4 DEF Statement, VerifyLogIn, GetUserId,
     GetListOfUsers, GetListOfChats, HasUnreadMessages, GetUnreadMessages, Scans,
     CreateNewChat, DeleteChat, InviteToChat, KickFromChat, SendMessage,
     ChangeMembers, Outcome, Reads, database, Later
<1>6. CASE UNCHANGED vars
  BY <1>1, <1>6 DEF vars, database
<1>7. ASSUME NEW t \in Threads, Hang(t) PROVE AccountsInv'
  BY <1>1, <1>7, <1>t, HangStops DEF Hang, database
<1> QED
  BY <1>2, <1>3, <1>4, <1>5, <1>6, <1>7 DEF Next, Slot

(* Between the check of a password and the fetching of the id the account  *)
(* stays the one whose password was given.                                 *)
PasswordIsProven ==
    \A t \in Threads :
        job[t].step = "getUserId" =>
            LET known == Known(job[t].query.email, job[t].query.password) IN
            known # {} /\ known \subseteq proven[job[t].client]

(* What makes the identity of a connection a proven one.                   *)
IdentityInv == PasswordIsProven /\ IdentityIsProven

(* As addresses are unique, the account fetched by address alone is the    *)
(* one whose password was right.                                           *)
LEMMA TheOneAccount ==
  ASSUME BaseInv, EmailUnique, NEW email, NEW password, Known(email, password) # {}
  PROVE  FirstAccountOf(email) \in Known(email, password)
<1>1. PICK a \in DOMAIN accounts : accounts[a] = [email |-> email, password |-> password]
  BY DEF Known
<1>2. DOMAIN accounts \subseteq Nat
  BY StoredNumbers DEF BaseInv, TypeOK, StoreTyped
<1>3. AccountsOf(email) = {a}
  BY <1>1 DEF AccountsOf, EmailUnique
<1>4. FirstAccountOf(email) = a
  BY <1>1, <1>2, <1>3 DEF FirstAccountOf
<1> QED BY <1>1, <1>4 DEF Known

(* No step makes a connection act for an account it did not prove.         *)
LEMMA IdentityStep ==
  BaseInv /\ AccountsInv /\ IdentityInv /\ [Next]_vars => IdentityInv'
<1> SUFFICES ASSUME BaseInv, AccountsInv, IdentityInv, [Next]_vars PROVE IdentityInv'
  OBVIOUS
<1>t. TypeOK /\ Dispatched /\ StoreTyped
  BY DEF BaseInv, TypeOK, StoreTyped
<1>1. ASSUME UNCHANGED <<identity, messages>>,
             \A t \in Threads : \/ job'[t] = job[t] /\ UNCHANGED accounts
                                \/ job'[t].step # "getUserId"
      PROVE  IdentityInv'
  BY <1>1 DEF IdentityInv, PasswordIsProven, IdentityIsProven, Known, identity
<1>2. ASSUME NEW c \in Connections, Ask(c) PROVE IdentityInv'
  BY <1>1, <1>2 DEF Ask, database
<1>3. ASSUME NEW c \in Connections, ProcessQuery(c) PROVE IdentityInv'
  BY <1>1, <1>3, <1>t DEF ProcessQuery, database, TypeOK, FirstStep
<1>4. ASSUME NEW t \in Threads, SendResponse(t) PROVE IdentityInv'
  BY <1>1, <1>4, <1>t DEF SendResponse, database, TypeOK, Idle
<1>5. ASSUME NEW t \in Threads, Statement(t) PROVE IdentityInv'
  <2>1. PICK k \in Job : /\ \A u \in Threads : job'[u] = k
                         /\ k.client = job[t].client /\ k.query = job[t].query
                         /\ \/ k.step = "getUserId" /\ VerifyLogIn(t)
                            \/ k.step = "registerNewUser" /\ IsEmailAvailable(t)
                            \/ k.step \in Later /\ Scans(t)
                            \/ k.step = "reply"
    BY <1>5, StatementMoves
  <2> DEFINE c == job[t].client
             known == Known(job[t].query.email, job[t].query.password)
  <2>c. job[t] \in Job /\ c \in Connections
    BY <1>5, <1>t, StatementAdvances DEF Advances, Job
  <2>2. CASE VerifyLogIn(t)
    <3>1. PICK got \in BOOLEAN :
            /\ got = (known # {}) \/ got = FALSE
            /\ job' = [job EXCEPT ![t] =
                 IF got THEN [job[t] EXCEPT !.step = "getUserId"]
                        ELSE [job[t] EXCEPT !.step = "reply", !.code = 1]]
            /\ proven' = [proven EXCEPT ![c] = IF got THEN @ \cup known ELSE @]
      BY <2>2 DEF VerifyLogIn, Outcome
    <3>2. UNCHANGED <<accounts, messages, userId, loggedIn>>
      BY <2>2 DEF VerifyLogIn, Outcome, Reads, database
    <3>3. got \/ job'[t].step = "reply"
      <4>1. Continues(job[t], [job[t] EXCEPT !.step = "reply", !.code = 1], "reply")
        BY <2>c, JobContinues, StepNames
      <4>2. ~ got => job'[t] = [job[t] EXCEPT !.step = "reply", !.code = 1]
        BY <3>1, <1>t DEF TypeOK
      <4> QED BY <4>1, <4>2 DEF Continues
    <3>4. \A d \in Connections : proven[d] \subseteq proven'[d]
      BY <3>1, <1>t DEF TypeOK
    <3>5. got => known # {} /\ known \subseteq proven'[c]
      BY <3>1, <2>c, <1>t DEF TypeOK
    <3>6. PasswordIsProven'
      BY <2>1, <3>2, <3>3, <3>5 DEF PasswordIsProven, Known
    <3>7. IdentityIsProven'
      <4>1. \A m \in DOMAIN messages : messages[m].via \in Connections
        <5> TAKE m \in DOMAIN messages
        <5>1. messages[m] \in Message
          BY <1>t DEF StoreTyped
        <5> QED BY <5>1 DEF Message
      <4> QED BY <3>2, <3>4, <4>1 DEF IdentityInv, IdentityIsProven
    <3> QED BY <3>6, <3>7 DEF IdentityInv
  <2>3. CASE GetUserId(t)
    <3>1. PICK got \in 0 .. Len(accounts) :
            /\ got = FirstAccountOf(job[t].query.email) \/ got = 0
            /\ userId' = [userId EXCEPT ![c] = got]
            /\ loggedIn' = [loggedIn EXCEPT ![c] = TRUE]
            /\ UNCHANGED <<proven, messages>>
      BY <2>3 DEF GetUserId, Outcome, Reads, database
    <3>2. known # {} /\ known \subseteq proven[c]
      BY <2>3 DEF GetUserId, At, IdentityInv, PasswordIsProven
    <3>3. got # 0 => got \in proven'[c]
      BY <3>1, <3>2, TheOneAccount DEF AccountsInv
    <3>4. k.step # "getUserId"
      <4>1. ~ VerifyLogIn(t)
        BY <2>3 DEF GetUserId, VerifyLogIn, At
      <4> QED BY <2>1, <4>1 DEF Later
    <3>5. \A d \in Connections :
            userId'[d] \in IF loggedIn'[d] THEN proven'[d] \cup {0} ELSE StaleIds
      BY <3>1, <3>3, <2>c, <1>t DEF IdentityInv, IdentityIsProven, TypeOK
    <3>6. IdentityIsProven'
      BY <3>1, <3>5 DEF IdentityInv, IdentityIsProven
    <3> QED BY <2>1, <3>4, <3>6 DEF IdentityInv, PasswordIsProven
  <2>4. CASE UNCHANGED <<identity, messages>> /\ ~ VerifyLogIn(t)
    BY <1>1, <2>1, <2>4 DEF Later
  <2>5. CASE SendMessage(t)
    <3> DEFINE chat == job[t].query.chat
               message == [chat |-> chat, sender |-> userId[c], via |-> c]
    <3>1. /\ UNCHANGED identity
          /\ \/ UNCHANGED messages
             \/ Exists(userId[c], chat) /\ messages' = Append(messages, message)
      <4>1. Len(messages) + 1 # 0
        BY <1>t DEF StoreTyped
      <4> QED BY <2>5, <4>1 DEF SendMessage, Outcome, database
    <3>2. CASE Exists(userId[c], chat) /\ messages' = Append(messages, message)
      <4>1. \A m \in DOMAIN messages' :
              (m \in DOMAIN messages /\ messages'[m] = messages[m])  \/  messages'[m] = message
        BY <3>2, <1>t DEF StoreTyped
      <4>2. userId[c] \in proven[c] \cup StaleIds
        <5>1. userId[c] # 0
          BY <3>2, <1>t DEF Exists, StoreTyped
        <5> QED BY <5>1, <2>c DEF IdentityInv, IdentityIsProven
      <4> DEFINE own(m) == m.sender \in proven[m.via] \cup StaleIds
      <4>m. own(message)
        BY <4>2
      <4>o. \A m \in DOMAIN messages : own(messages[m])
        BY DEF IdentityInv, IdentityIsProven
      <4> HIDE DEF message
      <4>n. \A m \in DOMAIN messages' : own(messages'[m])
        <5> HIDE DEF own
        <5> QED BY <4>1, <4>m, <4>o
      <4>3. IdentityIsProven'
        BY <3>1, <4>n DEF IdentityInv, IdentityIsProven, identity
      <4>4. PasswordIsProven'
        <5>1. ~ VerifyLogIn(t)
          BY <2>5 DEF SendMessage, VerifyLogIn, At
        <5> QED BY <2>1, <5>1 DEF PasswordIsProven, Later
      <4> QED BY <4>3, <4>4 DEF IdentityInv
    <3>3. ~ VerifyLogIn(t)
      BY <2>5 DEF SendMessage, VerifyLogIn, At
    <3> QED BY <2>4, <3>1, <3>2, <3>3
  <2>6. \/ VerifyLogIn(t) \/ GetUserId(t) \/ SendMessage(t)
        \/ UNCHANGED <<identity, messages>>
    BY <1>5 DEF Statement, IsEmailAvailable, RegisterNewUser, GetListOfUsers,
       GetListOfChats, HasUnreadMessages, GetUnreadMessages, CreateNewChat,
       DeleteChat, InviteToChat, KickFromChat, ChangeMembers, Outcome, Reads, database
  <2> QED BY <2>2, <2>3, <2>4, <2>5, <2>6
<1>6. CASE UNCHANGED vars
  BY <1>1, <1>6 DEF vars, database
<1>7. ASSUME NEW t \in Threads, Hang(t) PROVE IdentityInv'
  BY <1>1, <1>7, <1>t, HangStops DEF Hang, database
<1> QED
  BY <1>2, <1>3, <1>4, <1>5, <1>6, <1>7 DEF Next, Slot

(* What the answer to query q of client c names exists.                    *)
AnswerIsReal(c, q, code, number) ==
    /\ q.type = "registration" /\ code = 0 => Known(q.email, q.password) # {}
    /\ q.type = "create" /\ number # 0 => number \in DOMAIN chats
    /\ q.type = "send" /\ number # 0 =>
         /\ number \in DOMAIN messages
         /\ messages[number].via = c
         /\ messages[number].chat = q.chat

(* The answer of a query that is about to be replied to is real.           *)
AnswersAreReal ==
    \A t \in Threads :
        job[t].step = "reply" =>
            AnswerIsReal(job[t].client, job[t].query, job[t].code, job[t].number)

(* Answers that were sent and the one that is about to be.                 *)
RepliesInv == AnswersAreReal /\ RepliesAreReal

(* RepliesAreReal says that every reply sent is a real answer.             *)
LEMMA ReplyShown ==
  RepliesAreReal <=>
    \A c \in Connections : AnswerIsReal(c, reply[c].query, reply[c].code, reply[c].number)
  BY DEF RepliesAreReal, AnswerIsReal

(* The statement that decides the answer makes it real.                    *)
LEMMA AnswerStep ==
  ASSUME BaseInv, NEW t \in Threads, Statement(t),
         NEW c, NEW q, NEW k \in Job, c = job[t].client, q = job[t].query,
         job'[t] = k, k.step = "reply"
  PROVE  AnswerIsReal(c, q, k.code, k.number)'
<1>t. TypeOK /\ Dispatched /\ StoreTyped
  BY DEF BaseInv, TypeOK, StoreTyped
<1>j. job[t] \in Job /\ job \in [Threads -> Job \cup {Idle}]
  BY <1>t, StatementAdvances DEF Advances, TypeOK
<1>1. CASE RegisterNewUser(t)
  <2> DEFINE account == [email |-> q.email, password |-> q.password]
  <2>1. PICK got \in BOOLEAN :
          /\ got => accounts' = Append(accounts, account)
          /\ job' = [job EXCEPT ![t] =
               [job[t] EXCEPT !.step = "reply", !.code = IF got THEN 0 ELSE 1]]
    BY <1>1 DEF RegisterNewUser, Outcome
  <2>2. k.code = 0 => got
    <3>1. ~ got => k = [job[t] EXCEPT !.step = "reply", !.code = 1]
      BY <2>1, <1>j
    <3>2. ~ got => k.code = 1
      BY <3>1, <1>j DEF Job
    <3> QED BY <3>2
  <2>3. got => Len(accounts) + 1 \in DOMAIN accounts' /\ accounts'[Len(accounts) + 1] = account
    BY <2>1, <1>t DEF StoreTyped
  <2>4. got => Known(q.email, q.password)' # {}
    BY <2>3 DEF Known
  <2>5. q.type = "registration"
    BY <1>1, <1>t DEF RegisterNewUser, At, Dispatched
  <2> QED BY <2>2, <2>4, <2>5 DEF AnswerIsReal
<1>2. CASE CreateNewChat(t)
  <2>1. PICK got \in Nat :
          /\ got # 0 => got = Len(chats) + 1 /\ \E x : chats' = Append(chats, x)
          /\ job' = [job EXCEPT ![t] =
               [job[t] EXCEPT !.step = "reply", !.number = got, !.done = got # 0]]
    <3>1. Len(chats) + 1 \in Nat
      BY <1>t DEF StoreTyped
    <3> QED BY <1>2, <3>1 DEF CreateNewChat, Outcome
  <2>2. k.number = got
    BY <2>1, <1>j DEF Job
  <2>3. got # 0 => got \in DOMAIN chats'
    BY <2>1, <1>t DEF StoreTyped
  <2>4. q.type = "create"
    BY <1>2, <1>t DEF CreateNewChat, At, Dispatched
  <2> QED BY <2>2, <2>3, <2>4 DEF AnswerIsReal
<1>3. CASE SendMessage(t)
  <2>u. PICK u : u = userId[job[t].client]
    OBVIOUS
  <2> DEFINE message == [chat |-> q.chat, sender |-> u, via |-> c]
  <2>1. PICK got \in Nat :
          /\ got # 0 => got = Len(messages) + 1 /\ messages' = Append(messages, message)
          /\ job' = [job EXCEPT ![t] =
               [job[t] EXCEPT !.step = "reply", !.number = got, !.done = got # 0]]
    <3>1. Len(messages) + 1 \in Nat
      BY <1>t DEF StoreTyped
    <3> QED BY <1>3, <2>u, <3>1 DEF SendMessage, Outcome
  <2>2. k.number = got
    BY <2>1, <1>j DEF Job
  <2>3. got # 0 => got \in DOMAIN messages' /\ messages'[got] = message
    BY <2>1, <1>t DEF StoreTyped
  <2>4. q.type = "send"
    BY <1>3, <1>t DEF SendMessage, At, Dispatched
  <2> QED BY <2>2, <2>3, <2>4 DEF AnswerIsReal
<1>4. CASE IsEmailAvailable(t)
  <2>1. PICK got \in BOOLEAN :
          job' = [job EXCEPT ![t] =
               IF got THEN [job[t] EXCEPT !.step = "registerNewUser"]
                      ELSE [job[t] EXCEPT !.step = "reply", !.code = 1]]
    BY <1>4 DEF IsEmailAvailable
  <2>2. got => k.step = "registerNewUser"
    <3>1. Continues(job[t], [job[t] EXCEPT !.step = "registerNewUser"], "registerNewUser")
      BY <1>j, JobContinues, StepNames
    <3>2. got => job'[t] = [job[t] EXCEPT !.step = "registerNewUser"]
      BY <2>1, <1>j
    <3> QED BY <3>1, <3>2 DEF Continues
  <2>3. ~ got => k.code = 1
    BY <2>1, <1>j DEF Job
  <2>4. q.type = "registration"
    BY <1>4, <1>t DEF IsEmailAvailable, At, Dispatched
  <2> QED BY <2>2, <2>3, <2>4 DEF AnswerIsReal
<1>5. CASE q.type \notin {"registration", "create", "send"}
  BY <1>5 DEF AnswerIsReal
<1>6. \/ RegisterNewUser(t) \/ CreateNewChat(t) \/ SendMessage(t) \/ IsEmailAvailable(t)
      \/ q.type \notin {"registration", "create", "send"}
  BY <1>t DEF Statement, At, Dispatched, VerifyLogIn, GetUserId, GetListOfUsers,
     GetListOfChats, HasUnreadMessages, GetUnreadMessages, DeleteChat,
     InviteToChat, KickFromChat
<1> QED BY <1>1, <1>2, <1>3, <1>4, <1>5, <1>6

(* No step makes an answer name what does not exist.                       *)
LEMMA RepliesStep == BaseInv /\ RepliesInv /\ [Next]_vars => RepliesInv'
<1> SUFFICES ASSUME BaseInv, RepliesInv, [Next]_vars PROVE RepliesInv'
  OBVIOUS
<1>t. TypeOK
  BY DEF BaseInv
<1>1. ASSUME UNCHANGED <<database, reply>>,
             \A t \in Threads : job'[t] = job[t] \/ job'[t].step # "reply"
      PROVE  RepliesInv'
  BY <1>1 DEF RepliesInv, AnswersAreReal, RepliesAreReal, AnswerIsReal, Known, database
<1>2. ASSUME NEW c \in Connections, Ask(c) PROVE RepliesInv'
  BY <1>1, <1>2 DEF Ask
<1>3. ASSUME NEW c \in Connections, ProcessQuery(c) PROVE RepliesInv'
  BY <1>1, <1>3, <1>t DEF ProcessQuery, TypeOK, FirstStep
<1>4. ASSUME NEW t \in Threads, SendResponse(t) PROVE RepliesInv'
  <2> DEFINE c == job[t].client
             r == [query |-> job[t].query, code |-> job[t].code,
                   number |-> job[t].number, rows |-> job[t].rows,
                   done |-> job[t].done]
  <2>1. /\ reply' = [reply EXCEPT ![c] = r]
        /\ job' = [job EXCEPT ![t] = Idle]
        /\ UNCHANGED database
    BY <1>4 DEF SendResponse
  <2>2. AnswerIsReal(c, r.query, r.code, r.number)
    BY <1>4 DEF SendResponse, RepliesInv, AnswersAreReal
  <2>3. Grows
    BY <2>1 DEF Grows, database
  <2>4. \A d \in Connections :
          AnswerIsReal(d, reply'[d].query, reply'[d].code, reply'[d].number)
    <3> TAKE d \in Connections
    <3>1. CASE d = c
      <4>1. reply'[d] = r
        BY <3>1, <2>1, <1>t DEF TypeOK
      <4> QED BY <3>1, <4>1, <2>2
    <3>2. CASE d # c
      <4>1. reply'[d] = reply[d]
        BY <3>2, <2>1, <1>t DEF TypeOK
      <4> QED BY <4>1, ReplyShown DEF RepliesInv
    <3> QED BY <3>1, <3>2
  <2>5. RepliesAreReal'
    BY <2>1, <2>4 DEF RepliesAreReal, AnswerIsReal, Known, database
  <2>6. AnswersAreReal'
    BY <2>1, <1>t, OneThread DEF AnswersAreReal, TypeOK, Idle
  <2> QED BY <2>5, <2>6 DEF RepliesInv
<1>5. ASSUME NEW t \in Threads, Statement(t) PROVE RepliesInv'
  <2>1. PICK k \in Job : /\ \A u \in Threads : job'[u] = k
                         /\ k.client = job[t].client /\ k.query = job[t].query
    BY <1>5, StatementMoves
  <2>2. AnswersAreReal'
    <3>1. k.step = "reply" => AnswerIsReal(k.client, k.query, k.code, k.number)'
      BY <1>5, <2>1, AnswerStep
    <3> QED BY <2>1, <3>1 DEF AnswersAreReal, AnswerIsReal
  <2>3. Grows /\ UNCHANGED reply
    BY <1>5, StoreStep, StatementAdvances DEF BaseInv, Advances, clients
  <2>4. RepliesAreReal'
    <3>1. \A c \in Connections :
            AnswerIsReal(c, reply[c].query, reply[c].code, reply[c].number)
      BY ReplyShown DEF RepliesInv
    <3>2. \A c \in Connections :
            Known(reply[c].query.email, reply[c].query.password) # {} =>
            Known(reply[c].query.email, reply[c].query.password)' # {}
      BY <2>3 DEF Grows, Known
    <3> QED BY <3>1, <3>2, <2>3 DEF Grows, RepliesAreReal, AnswerIsReal
  <2> QED BY <2>2, <2>4 DEF RepliesInv
<1>6. CASE UNCHANGED vars
  BY <1>1, <1>6 DEF vars, clients
<1>7. ASSUME NEW t \in Threads, Hang(t) PROVE RepliesInv'
  BY <1>1, <1>7, <1>t, HangStops DEF Hang, clients
<1> QED
  BY <1>2, <1>3, <1>4, <1>5, <1>6, <1>7 DEF Next, Slot

-----------------------------------------------------------------------------
(* The inductive invariant.                                                *)
QueryInv == BaseInv /\ AccountsInv /\ IdentityInv /\ RepliesInv

(* It holds at the start, whatever the memory of user.userId holds.        *)
LEMMA QueryInvInit == Init => QueryInv
<1> SUFFICES ASSUME Init PROVE QueryInv
  OBVIOUS
<1>1. \A t \in Threads : job[t] = Idle
  BY DEF Init
<1>2. TypeOK
  <2>1. userId \in [Connections -> Nat]
    BY StaleIdsAssumption DEF Init
  <2> QED BY <2>1, BoundsAssumption DEF Init, TypeOK, database, identity
<1>3. Dispatched /\ Owed
  BY <1>1 DEF Init, Dispatched, Owed, Idle
<1>4. AccountsInv
  BY <1>1 DEF Init, AccountsInv, AddressIsFree, EmailUnique, Idle
<1>5. IdentityInv
  BY <1>1 DEF Init, IdentityInv, PasswordIsProven, IdentityIsProven, Idle
<1>6. RepliesInv
  BY <1>1 DEF Init, RepliesInv, AnswersAreReal, RepliesAreReal, NoQuery, Idle
<1> QED BY <1>2, <1>3, <1>4, <1>5, <1>6 DEF QueryInv, BaseInv

(* Every step keeps it.                                                    *)
LEMMA QueryInvStep == QueryInv /\ [Next]_vars => QueryInv'
  BY BaseStep, AccountsStep, IdentityStep, RepliesStep DEF QueryInv

(* The invariant holds in every state, for any clients and failures.       *)
THEOREM QueryInvariant == Spec => []QueryInv
  BY QueryInvInit, QueryInvStep, PTL DEF Spec

(* Every variable keeps its shape, stored numbers name stored things, and  *)
(* no client gets more replies than it asked for.                          *)
THEOREM QueriesTypeCorrect == Spec => []TypeOK
  BY QueryInvariant, PTL DEF QueryInv, BaseInv

(* registerNewUser checks the address and makes the account in separate    *)
(* statements, and yet no address ever gets two accounts.                  *)
THEOREM EmailsAreUnique == Spec => []EmailUnique
  BY QueryInvariant, PTL DEF QueryInv, AccountsInv

(* A connection that has logged in acts for nobody or for an account whose *)
(* password it gave, one that has not for whatever its memory held; and so *)
(* every message is sent by an account that was proven on its connection   *)
(* or was left in the memory of one.                                       *)
THEOREM IdentitiesAreProven == Spec => []IdentityIsProven
  BY QueryInvariant, PTL DEF QueryInv, IdentityInv

(* Whatever statements fail, a reply never names an account, a chat or a   *)
(* message that does not exist.                                            *)
THEOREM RepliesNameWhatExists == Spec => []RepliesAreReal
  BY QueryInvariant, PTL DEF QueryInv, RepliesInv

(* While a statement does not come to an end, every slot waits for it.     *)
LEMMA HungStep ==
  ASSUME TypeOK, Hung, [Next]_vars
  PROVE  UNCHANGED <<database, identity, answered, reply, job>>
<1>1. \A t \in Threads : job[t].step = "hung"
  BY OneThread DEF Hung
<1>2. ASSUME NEW c \in Connections, Ask(c)
      PROVE  UNCHANGED <<database, identity, answered, reply, job>>
  BY <1>2 DEF Ask
<1>3. ~ \E c \in Connections : ProcessQuery(c)
  BY <1>1 DEF ProcessQuery, Threads, Idle
<1>4. ~ \E t \in Threads : Slot(t) \/ Hang(t)
  BY <1>1 DEF Slot, SendResponse, Statement, At, VerifyLogIn, GetUserId,
     IsEmailAvailable, RegisterNewUser, GetListOfUsers, GetListOfChats,
     HasUnreadMessages, GetUnreadMessages, CreateNewChat, DeleteChat,
     InviteToChat, KickFromChat, SendMessage, Hang
<1>5. CASE UNCHANGED vars
  BY <1>5 DEF vars, clients
<1> QED BY <1>2, <1>3, <1>4, <1>5 DEF Next

(* Once a statement does not come to an end, no query of any client of any *)
(* worker is executed or answered: all their slots wait for one thread.    *)
THEOREM HangingStopsEveryone == Spec => HangingStopsAll
<1>1. TypeOK /\ [Next]_vars =>
        [Hung => UNCHANGED <<database, identity, answered, reply, job>>]_vars
  BY HungStep
<1> QED BY <1>1, QueriesTypeCorrect, PTL DEF Spec, HangingStopsAll
=============================================================================
