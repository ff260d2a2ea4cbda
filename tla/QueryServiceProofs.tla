------------------------- MODULE QueryServiceProofs -------------------------
(***************************************************************************)
(* The server implements QueryService: whatever clients, workers, queries  *)
(* and failing statements there are, every query is executed as if in one  *)
(* step.                                                                   *)
(*                                                                         *)
(* A query takes effect with the statement that completes it; the earlier  *)
(* statements of a login, of a registration and of a synchronisation are   *)
(* invisible.  What has to be known at the completing statement of what    *)
(* the earlier ones found is the invariant ServiceInv: QueryInv, the kinds *)
(* of query each statement serves (Serves), the answer that is still blank *)
(* (BlankUntilDecided), and how much of the snapshot a synchronisation has *)
(* in hand (SyncOnCourse, SyncIsWhole).                                    *)
(***************************************************************************)
EXTENDS QueryProcessingProofs

(* The statements that read the chats of a synchronisation one by one.     *)
Reading == {"hasUnreadMessages", "getUnreadMessages"}

(* Each statement serves queries of one kind, the list of chats two.       *)
Serves ==
    \A t \in Threads :
        LET step == job[t].step  type == job[t].query.type IN
        /\ step = "getListOfUsers" => type = "users"
        /\ step = "getListOfChats" => type \in {"chats", "synchronization"}
        /\ step = "deleteChat" => type = "delete"
        /\ step = "inviteToChat" => type = "invite"
        /\ step = "kickFromChat" => type = "kick"
        /\ step \in Reading => type = "synchronization"

(* The answer of a job that nothing has been put into.                     *)
Blank(j) ==
    /\ j.code = 0 /\ j.number = 0 /\ j.done = TRUE
    /\ j.rows = {} /\ j.todo = {} /\ j.found = {}

BlankUntilDecided ==
    \A t \in Threads :
        /\ job[t].step \notin {"idle", "reply", "hung"} \cup Reading => Blank(job[t])
        /\ job[t].step \in Reading => job[t].code = 0 /\ job[t].number = 0

(* The messages that are unread, at this moment, in the chats of the user. *)
UnreadOf(user, since) ==
    {m \in DOMAIN messages : messages[m].chat \in ChatsOf(user) /\ m > since}

(* A synchronisation has fetched some of them; unless a statement failed,  *)
(* the others are in the chats it has still to look into or to fetch.      *)
OnCourse(j) ==
    LET all == UnreadOf(userId[j.client], j.query.since) IN
    /\ j.todo \cup j.found \subseteq ChatsOf(userId[j.client])
    /\ j.step = SyncStep(j.todo, j.found)
    /\ j.rows \subseteq all
    /\ j.done => \A m \in all \ j.rows : messages[m].chat \in j.todo \cup j.found
    /\ ~ j.done => failures > 0

SyncOnCourse ==
    \A t \in Threads : job[t].step \in Reading => OnCourse(job[t])

(* What a synchronisation answers.                                         *)
SyncIsWhole ==
    \A t \in Threads :
        job[t].step = "reply" /\ job[t].query.type = "synchronization" /\ job[t].done =>
            job[t].rows = UnreadOf(userId[job[t].client], job[t].query.since)

ServiceInv == QueryInv /\ Serves /\ BlankUntilDecided /\ SyncOnCourse /\ SyncIsWhole

-----------------------------------------------------------------------------
(* The snapshot is put together from the unread messages of each chat.     *)
LEMMA SnapshotByChat ==
  ASSUME NEW user, NEW since
  PROVE  /\ UnreadOf(user, since) = UNION {Unread(k, since) : k \in ChatsOf(user)}
         /\ \A k \in ChatsOf(user) : Unread(k, since) \subseteq UnreadOf(user, since)
  BY DEF UnreadOf, Unread

(* Whether a statement failed is seen in the number of failures.           *)
Fails == failures < MaxFailures /\ failures' = failures + 1

LEMMA CleanOrFails ==
  ASSUME TypeOK, Clean \/ Fails
  PROVE  /\ Clean => ~ Fails
         /\ Fails => ~ Clean /\ failures' > 0
         /\ failures > 0 => failures' > 0
  BY DEF TypeOK, Clean, Fails

(* A job that is executed goes on in the one thread there is.              *)
LEMMA TheJob ==
  ASSUME TypeOK, NEW t \in Threads, NEW k, job' = [job EXCEPT ![t] = k]
  PROVE  \A u \in Threads : u = t /\ job'[u] = k
  BY OneThread DEF TypeOK

(* What a synchronisation has in hand after one of its statements.         *)
Scanned(j, k) ==
    /\ k \in Job /\ k.client = j.client /\ k.query = j.query
    /\ k.code = 0 /\ k.number = 0
    /\ k.done <=> (j.done /\ Clean)
    /\ Clean \/ Fails
    /\ UNCHANGED <<database, identity>>
    /\ LET all == UnreadOf(userId[j.client], j.query.since) IN
       /\ k.todo \cup k.found \subseteq ChatsOf(userId[j.client])
       /\ k.step = SyncStep(k.todo, k.found)
       /\ k.rows \subseteq all
       /\ k.done => \A m \in all \ k.rows : messages[m].chat \in k.todo \cup k.found

(* The list of the chats: nothing is fetched, every chat is to be seen.    *)
LEMMA ChatsListed ==
  ASSUME TypeOK, NEW t \in Threads, GetListOfChats(t), job[t] \in Job,
         job[t].query.type = "synchronization", Blank(job[t])
  PROVE  \E k : job' = [job EXCEPT ![t] = k] /\ Scanned(job[t], k)
<1> DEFINE j == job[t]
           own == ChatsOf(userId[j.client])
           K(got, d) == [j EXCEPT !.step = SyncStep(got, {}), !.todo = got, !.done = d]
<1>1. PICK got \in {own, {}} :
        /\ \/ got = own /\ Clean
           \/ got = {} /\ Fails
        /\ UNCHANGED database
        /\ job' = [job EXCEPT ![t] = K(got, Clean)]
  BY DEF GetListOfChats, Outcome, Clean, Fails, Reads
<1>2. Clean \in BOOLEAN
  BY DEF Clean
<1>3. UNCHANGED identity
  BY DEF GetListOfChats
<1>4. got \in SUBSET Nat /\ SyncStep(got, {}) \in Steps
  BY StoredNumbers, StepNames DEF TypeOK, StoreTyped
<1> PICK d \in BOOLEAN : d = Clean
  BY <1>2
<1> DEFINE k == K(got, d)
<1>5. /\ k \in Job /\ k.client = j.client /\ k.query = j.query
      /\ k.code = 0 /\ k.number = 0 /\ k.rows = {} /\ k.todo = got /\ k.found = {}
      /\ k.step = SyncStep(got, {}) /\ k.done = d
  <2>1. job[t].rows = {} /\ job[t].todo = {} /\ job[t].found = {}
    BY DEF Blank
  <2> QED BY <1>4, <2>1 DEF Job, Blank
<1>6. j.done = TRUE
  BY DEF Blank
<1>7. d => \A m \in UnreadOf(userId[j.client], j.query.since) : messages[m].chat \in got
  BY <1>1, CleanOrFails DEF UnreadOf
<1> HIDE DEF k
<1>8. Scanned(j, k)
  BY <1>1, <1>3, <1>5, <1>6, <1>7 DEF Scanned
<1> QED BY <1>1, <1>8 DEF k

(* A chat that was looked into: if it has unread messages it is to be      *)
(* fetched.                                                                *)
LEMMA ChatLookedInto ==
  ASSUME TypeOK, NEW t \in Threads, HasUnreadMessages(t), job[t] \in Job,
         OnCourse(job[t]), job[t].code = 0, job[t].number = 0
  PROVE  \E k : job' = [job EXCEPT ![t] = k] /\ Scanned(job[t], k)
<1> DEFINE j == job[t]
           K(todo, found, d) == [j EXCEPT !.step = SyncStep(todo, found), !.todo = todo,
                                          !.found = found, !.done = d]
<1>1. PICK x \in j.todo, got \in BOOLEAN :
        /\ \/ got = (Unread(x, j.query.since) # {}) /\ Clean
           \/ got = FALSE /\ Fails
        /\ UNCHANGED database
        /\ job' = [job EXCEPT ![t] =
             K(j.todo \ {x}, IF got THEN j.found \cup {x} ELSE j.found, j.done /\ Clean)]
  BY DEF HasUnreadMessages, Outcome, Clean, Fails, Reads
<1>3. UNCHANGED identity
  BY DEF HasUnreadMessages
<1> PICK d \in BOOLEAN : d = (j.done /\ Clean)
  BY DEF Clean
<1> PICK todo : todo = j.todo \ {x}
  OBVIOUS
<1> PICK found : found = IF got THEN j.found \cup {x} ELSE j.found
  OBVIOUS
<1> DEFINE k == K(todo, found, d)
<1>4. todo \in SUBSET Nat /\ found \in SUBSET Nat
  BY DEF Job
<1>5. /\ k \in Job /\ k.client = j.client /\ k.query = j.query
      /\ k.code = 0 /\ k.number = 0 /\ k.rows = j.rows /\ k.todo = todo /\ k.found = found
      /\ k.step = SyncStep(todo, found) /\ k.done = d
  <2>1. k.client = j.client /\ k.query = j.query /\ k.code = 0 /\ k.number = 0
    BY DEF Job
  <2>2. /\ k.rows = j.rows /\ k.todo = todo /\ k.found = found
        /\ k.step = SyncStep(todo, found) /\ k.done = d
    BY DEF Job
  <2>3. k \in Job
    <3>1. SyncStep(todo, found) \in Steps
      BY StepNames
    <3>2. QED BY <1>4, <3>1 DEF Job
  <2>4. QED BY <2>1, <2>2, <2>3
<1>6. todo \cup found \subseteq ChatsOf(userId[j.client])
  BY DEF OnCourse
<1>7. ASSUME d, NEW m \in UnreadOf(userId[j.client], j.query.since) \ j.rows
      PROVE  messages[m].chat \in todo \cup found
  <2>1. messages[m].chat \in j.todo \cup j.found
    BY <1>7 DEF OnCourse
  <2>2. messages[m].chat = x => Unread(x, j.query.since) # {}
    BY <1>7 DEF UnreadOf, Unread
  <2>3. (Unread(x, j.query.since) # {}) => got
    BY <1>7, <1>1, CleanOrFails
  <2> QED BY <2>1, <2>2, <2>3
<1> HIDE DEF k
<1>8. Scanned(j, k)
  BY <1>1, <1>3, <1>5, <1>6, <1>7 DEF Scanned, OnCourse
<1> QED BY <1>1, <1>8 DEF k

(* A chat that was fetched: its unread messages are in hand.               *)
LEMMA ChatFetched ==
  ASSUME TypeOK, NEW t \in Threads, GetUnreadMessages(t), job[t] \in Job,
         OnCourse(job[t]), job[t].code = 0, job[t].number = 0
  PROVE  \E k : job' = [job EXCEPT ![t] = k] /\ Scanned(job[t], k)
<1> DEFINE j == job[t]
           all == UnreadOf(userId[j.client], j.query.since)
           K(found, rows, d) == [j EXCEPT !.step = SyncStep({}, found), !.found = found,
                                          !.rows = rows, !.done = d]
<1>1. PICK x, got :
        /\ x \in j.found
        /\ \/ got = Unread(x, j.query.since) /\ Clean
           \/ got = {} /\ Fails
        /\ UNCHANGED database
        /\ job' = [job EXCEPT ![t] = K(j.found \ {x}, j.rows \cup got, j.done /\ Clean)]
  BY DEF GetUnreadMessages, Outcome, Clean, Fails, Reads
<1>2. j.todo = {}
  BY DEF GetUnreadMessages, At, OnCourse, SyncStep
<1>3. UNCHANGED identity
  BY DEF GetUnreadMessages
<1> PICK d \in BOOLEAN : d = (j.done /\ Clean)
  BY DEF Clean
<1> PICK found : found = j.found \ {x}
  OBVIOUS
<1> PICK rows : rows = j.rows \cup got
  OBVIOUS
<1> DEFINE k == K(found, rows, d)
<1>4. x \in ChatsOf(userId[j.client]) /\ got \subseteq all
  BY <1>1, SnapshotByChat DEF OnCourse
<1>5. found \in SUBSET Nat /\ rows \in SUBSET Nat /\ rows \subseteq all
  <2>1. all \subseteq Nat
    BY StoredNumbers DEF TypeOK, StoreTyped, UnreadOf
  <2> QED BY <1>4, <2>1 DEF Job, OnCourse
<1>6. /\ k \in Job /\ k.client = j.client /\ k.query = j.query
      /\ k.code = 0 /\ k.number = 0 /\ k.rows = rows /\ k.todo = {} /\ k.found = found
      /\ k.step = SyncStep({}, found) /\ k.done = d
  <2>1. SyncStep({}, found) \in Steps
    BY StepNames
  <2>2. QED BY <1>2, <1>5, <2>1 DEF Job
<1>7. ASSUME d, NEW m \in all \ rows PROVE messages[m].chat \in found
  <2>1. messages[m].chat \in j.found
    BY <1>7, <1>2 DEF OnCourse
  <2>2. messages[m].chat = x => m \in Unread(x, j.query.since)
    BY <1>7 DEF UnreadOf, Unread
  <2>3. got = Unread(x, j.query.since)
    BY <1>7, <1>1, CleanOrFails
  <2> QED BY <1>7, <2>1, <2>2, <2>3
<1>8. found \subseteq ChatsOf(userId[j.client])
  BY DEF OnCourse
<1> HIDE DEF k
<1>9. Scanned(j, k)
  BY <1>1, <1>3, <1>5, <1>6, <1>7, <1>8 DEF Scanned
<1> QED BY <1>1, <1>9 DEF k

-----------------------------------------------------------------------------
(* The facts about a thread that is at a statement.                        *)
LEMMA AtStatement ==
  ASSUME ServiceInv, NEW t \in Threads, Statement(t)
  PROVE  /\ TypeOK /\ job[t] \in Job
         /\ job[t].client \in Connections /\ job[t].query \in Queries
         /\ waiting[job[t].client] = job[t].query
         /\ waiting[job[t].client] # NoQuery
         /\ job[t].step \notin {"idle", "reply", "hung"}
         /\ UNCHANGED clients
<1>1. TypeOK /\ Owed
  BY DEF ServiceInv, QueryInv, BaseInv
<1>2. Advances(t)
  BY <1>1, StatementAdvances
<1>3. job[t] \in Job /\ UNCHANGED clients
  BY <1>2 DEF Advances
<1>4. job[t].client \in Connections /\ job[t].query \in Queries
  BY <1>3 DEF Job
<1>5. job[t] # Idle
  BY <1>3, StepNames DEF Idle, Job
<1>6. waiting[job[t].client] = job[t].query
  BY <1>1, <1>5 DEF Owed
<1>7. job[t].step \notin {"idle", "reply", "hung"}
  BY DEF Statement, At, VerifyLogIn, GetUserId, IsEmailAvailable,
     RegisterNewUser, GetListOfUsers, GetListOfChats, HasUnreadMessages,
     GetUnreadMessages, CreateNewChat, DeleteChat, InviteToChat, KickFromChat,
     SendMessage
<1> QED BY <1>1, <1>3, <1>4, <1>6, <1>7, NoQueryIsNone

(* A statement of a synchronisation.                                       *)
Syncs(t) == Scans(t) /\ job[t].query.type = "synchronization"

LEMMA SyncScans ==
  ASSUME ServiceInv, NEW t \in Threads, Syncs(t)
  PROVE  \E k : job' = [job EXCEPT ![t] = k] /\ Scanned(job[t], k)
<1>1. TypeOK /\ job[t] \in Job
  BY AtStatement DEF Syncs, Scans, Statement
<1>2. CASE GetListOfChats(t)
  BY <1>1, <1>2, ChatsListed DEF Syncs, ServiceInv, BlankUntilDecided,
     GetListOfChats, At, Reading
<1>3. CASE HasUnreadMessages(t)
  BY <1>1, <1>3, ChatLookedInto DEF ServiceInv, BlankUntilDecided, SyncOnCourse,
     HasUnreadMessages, At, Reading
<1>4. CASE GetUnreadMessages(t)
  BY <1>1, <1>4, ChatFetched DEF ServiceInv, BlankUntilDecided, SyncOnCourse,
     GetUnreadMessages, At, Reading
<1> QED BY <1>2, <1>3, <1>4 DEF Syncs, Scans

(* The first statement of a login or of a registration puts nothing into   *)
(* the answer unless it completes the query.                               *)
LEMMA FirstOfTwo ==
  ASSUME ServiceInv, NEW t \in Threads, VerifyLogIn(t) \/ IsEmailAvailable(t)
  PROVE  \A u \in Threads : job'[u].step # "reply" => Blank(job'[u])
<1>1. TypeOK /\ job[t] \in Job /\ Blank(job[t])
  BY AtStatement DEF Statement, VerifyLogIn, IsEmailAvailable, At, ServiceInv,
     BlankUntilDecided, Reading
<1>2. PICK got \in BOOLEAN, s \in {"getUserId", "registerNewUser"} :
        job' = [job EXCEPT ![t] =
          IF got THEN [job[t] EXCEPT !.step = s]
                 ELSE [job[t] EXCEPT !.step = "reply", !.code = 1]]
  BY DEF VerifyLogIn, IsEmailAvailable
<1>3. CASE got
  <2>1. job' = [job EXCEPT ![t] = [job[t] EXCEPT !.step = s]]
    BY <1>2, <1>3
  <2>2. Blank([job[t] EXCEPT !.step = s])
    BY <1>1 DEF Blank, Job
  <2> QED BY <1>1, <2>1, <2>2, TheJob
<1>4. CASE ~ got
  <2>1. job' = [job EXCEPT ![t] = [job[t] EXCEPT !.step = "reply", !.code = 1]]
    BY <1>2, <1>4
  <2>2. [job[t] EXCEPT !.step = "reply", !.code = 1].step = "reply"
    BY <1>1 DEF Job
  <2> QED BY <1>1, <2>1, <2>2, TheJob
<1> QED BY <1>3, <1>4

(* Any statement but those of a synchronisation decides the answer, or     *)
(* leaves it blank for the next one.                                       *)
LEMMA OtherStatements ==
  ASSUME ServiceInv, NEW t \in Threads, Statement(t), ~ Syncs(t)
  PROVE  \A u \in Threads :
           \/ job'[u].step = "reply" /\ job'[u].query.type # "synchronization"
           \/ job'[u].step \in {"getUserId", "registerNewUser"} /\ Blank(job'[u])
<1>1. BaseInv /\ TypeOK /\ Dispatched /\ Serves
  BY DEF ServiceInv, QueryInv, BaseInv
<1>2. PICK k \in Job : /\ job' = [job EXCEPT ![t] = k]
                       /\ \A u \in Threads : job'[u] = k
                       /\ k.client = job[t].client /\ k.query = job[t].query
                       /\ \/ k.step = "getUserId" /\ VerifyLogIn(t)
                          \/ k.step = "registerNewUser" /\ IsEmailAvailable(t)
                          \/ k.step \in Later /\ Scans(t)
                          \/ k.step = "reply"
  BY <1>1, StatementMoves
<1>3. CASE VerifyLogIn(t) \/ IsEmailAvailable(t)
  <2>1. job[t].query.type # "synchronization"
    BY <1>1, <1>3 DEF VerifyLogIn, IsEmailAvailable, At, Dispatched
  <2>2. ~ Scans(t)
    BY <1>3 DEF VerifyLogIn, IsEmailAvailable, Scans, GetListOfChats,
       HasUnreadMessages, GetUnreadMessages, At
  <2> QED BY <1>2, <1>3, <2>1, <2>2, FirstOfTwo
<1>4. CASE Scans(t)
  <2>1. GetListOfChats(t) /\ job[t].query.type = "chats"
    BY <1>1, <1>4 DEF Syncs, Scans, GetListOfChats, HasUnreadMessages,
       GetUnreadMessages, At, Serves, Reading
  <2>2. PICK got, d : job' = [job EXCEPT ![t] =
              [job[t] EXCEPT !.step = "reply", !.rows = got, !.done = d]]
    BY <2>1 DEF GetListOfChats
  <2>3. k.step = "reply"
    <3>1. job[t] \in Job
      BY AtStatement
    <3>2. job'[t] = [job[t] EXCEPT !.step = "reply", !.rows = got, !.done = d]
      BY <1>1, <2>2 DEF TypeOK
    <3>3. job'[t].step = "reply"
      BY <3>1, <3>2 DEF Job
    <3> QED BY <1>2, <3>3
  <2> QED BY <1>2, <2>1, <2>3
<1>5. CASE ~ (VerifyLogIn(t) \/ IsEmailAvailable(t) \/ Scans(t))
  <2>1. k.step = "reply"
    BY <1>2, <1>5
  <2>2. job[t].query.type # "synchronization"
    BY <1>1, <1>5 DEF Statement, Scans, GetUserId, RegisterNewUser,
       GetListOfUsers, CreateNewChat, DeleteChat, InviteToChat, KickFromChat,
       SendMessage, At, Dispatched, Serves
  <2> QED BY <1>2, <2>1, <2>2
<1> QED BY <1>3, <1>4, <1>5

(* A synchronisation stays on course.                                      *)
LEMMA SyncKept ==
  ASSUME ServiceInv, NEW t \in Threads, Syncs(t), NEW k,
         job' = [job EXCEPT ![t] = k], Scanned(job[t], k)
  PROVE  (Serves /\ BlankUntilDecided /\ SyncOnCourse /\ SyncIsWhole)'
<1>1. TypeOK /\ job[t] \in Job
  BY AtStatement DEF Syncs, Scans, Statement
<1>2. \A u \in Threads : u = t /\ job'[u] = k
  BY <1>1, TheJob
<1>3. k.query.type = "synchronization" /\ k.step \in Reading \cup {"reply"}
  BY DEF Scanned, Syncs, SyncStep, Reading
<1>4. Serves'
  BY <1>2, <1>3 DEF Serves, Reading
<1>5. BlankUntilDecided'
  BY <1>2, <1>3 DEF BlankUntilDecided, Scanned
<1>6. ~ k.done => failures' > 0
  <2>1. job[t].done = TRUE \/ failures > 0
    BY <1>1 DEF Syncs, Scans, GetListOfChats, HasUnreadMessages,
       GetUnreadMessages, At, ServiceInv, BlankUntilDecided, Blank,
       SyncOnCourse, OnCourse, Reading
  <2> QED BY <1>1, <2>1, CleanOrFails DEF Scanned
<1>7. UnreadOf(userId[k.client], k.query.since)' = UnreadOf(userId[k.client], k.query.since)
  BY DEF Scanned, UnreadOf, ChatsOf, database, identity
<1>8. ChatsOf(userId[k.client])' = ChatsOf(userId[k.client]) /\ messages' = messages
  BY DEF Scanned, ChatsOf, database, identity
<1>9. SyncOnCourse'
  BY <1>2, <1>6, <1>7, <1>8 DEF Scanned, SyncOnCourse, OnCourse
<1>10. k.step = "reply" => k.todo \cup k.found = {}
  BY DEF Scanned, SyncStep
<1>12. k.step = "reply" /\ k.done => k.rows = UnreadOf(userId[k.client], k.query.since)
  BY <1>10 DEF Scanned
<1>13. userId' = userId
  BY DEF Scanned, identity
<1>11. SyncIsWhole'
  BY <1>2, <1>7, <1>12, <1>13 DEF SyncIsWhole
<1> QED BY <1>4, <1>5, <1>9, <1>11

(* The part of the invariant that is new here, at the start and kept.      *)
LEMMA ServiceInvInit == Init => ServiceInv
<1> SUFFICES ASSUME Init PROVE ServiceInv
  OBVIOUS
<1>1. \A t \in Threads : job[t].step = "idle"
  BY DEF Init, Idle
<1> QED BY <1>1, QueryInvInit DEF ServiceInv, Serves, BlankUntilDecided,
  SyncOnCourse, SyncIsWhole, Reading

LEMMA ServiceInvStep == ServiceInv /\ [Next]_vars => ServiceInv'
<1> SUFFICES ASSUME ServiceInv, [Next]_vars PROVE ServiceInv'
  OBVIOUS
<1> DEFINE New == Serves /\ BlankUntilDecided /\ SyncOnCourse /\ SyncIsWhole
<1>t. TypeOK /\ New
  BY DEF ServiceInv, QueryInv, BaseInv
<1>1. ASSUME UNCHANGED <<database, identity, job, failures>> PROVE New'
  BY <1>1, <1>t DEF Serves, BlankUntilDecided, SyncOnCourse, SyncIsWhole,
     OnCourse, UnreadOf, ChatsOf, database, identity, Blank
<1>2. ASSUME NEW c \in Connections, Ask(c) PROVE New'
  BY <1>1, <1>2 DEF Ask
<1>3. ASSUME NEW c \in Connections, ProcessQuery(c) PROVE New'
  <2> DEFINE t == SlotThread(c)
             q == waiting[c]
             k == [step |-> FirstStep[q.type], client |-> c, query |-> q,
                   code |-> 0, number |-> 0, rows |-> {}, todo |-> {},
                   found |-> {}, done |-> TRUE]
  <2>t. t \in Threads
    BY DEF Threads
  <2>1. CASE UNCHANGED job
    BY <1>1, <1>3, <2>1 DEF ProcessQuery
  <2>2. CASE q.type \in DOMAIN FirstStep /\ job' = [job EXCEPT ![t] = k]
    <3>1. k.step = FirstStep[q.type] /\ k.query = q /\ Blank(k)
      BY DEF Blank
    <3> HIDE DEF k
    <3>2. \A u \in Threads : job'[u] = k
      BY <1>t, <2>2, <2>t, TheJob
    <3>3. k.step \notin Reading \cup {"reply", "idle"}
      BY <2>2, <3>1 DEF FirstStep, Reading
    <3>4. Serves'
      BY <2>2, <3>1, <3>2, <3>3 DEF Serves, FirstStep
    <3> QED BY <3>1, <3>2, <3>3, <3>4 DEF BlankUntilDecided, SyncOnCourse, SyncIsWhole
  <2> QED BY <1>3, <2>1, <2>2 DEF ProcessQuery
<1>4. ASSUME NEW t \in Threads, SendResponse(t) PROVE New'
  <2>1. \A u \in Threads : job'[u] = Idle
    BY <1>4, <1>t, TheJob DEF SendResponse
  <2> QED BY <2>1 DEF Serves, BlankUntilDecided, SyncOnCourse, SyncIsWhole,
      Idle, Reading
<1>5. ASSUME NEW t \in Threads, Statement(t) PROVE New'
  <2>1. CASE Syncs(t)
    BY <2>1, SyncScans, SyncKept
  <2>2. CASE ~ Syncs(t)
    <3>1. \A u \in Threads :
            \/ job'[u].step = "reply" /\ job'[u].query.type # "synchronization"
            \/ job'[u].step \in {"getUserId", "registerNewUser"} /\ Blank(job'[u])
      BY <1>5, <2>2, OtherStatements
    <3> QED BY <3>1 DEF Serves, BlankUntilDecided, SyncOnCourse, SyncIsWhole,
        Reading, Blank
  <2> QED BY <2>1, <2>2
<1>6. ASSUME UNCHANGED vars PROVE New'
  BY <1>1, <1>6 DEF vars
<1>7. ASSUME NEW t \in Threads, Hang(t) PROVE New'
  <2>1. \A u \in Threads : job'[u].step = "hung"
    BY <1>7, <1>t, HangStops
  <2> QED BY <2>1 DEF Serves, BlankUntilDecided, SyncOnCourse, SyncIsWhole, Reading
<1> HIDE DEF New
<1>8. New'
  BY <1>2, <1>3, <1>4, <1>5, <1>6, <1>7 DEF Next, Slot
<1> QED BY <1>8, QueryInvStep DEF ServiceInv, New

(* The invariant holds in every state.                                     *)
THEOREM ServiceInvariant == Spec => []ServiceInv
  BY ServiceInvInit, ServiceInvStep, PTL DEF Spec

(* The reply to a synchronisation none of whose statements failed is       *)
(* exactly what is unread at that moment in the chats of the user,         *)
(* although it was put together from one statement per chat.               *)
THEOREM SynchronizationsAreSnapshots == Spec => SyncIsSnapshot
<1> DEFINE A == \A t \in Threads :
         SendResponse(t) /\ job[t].query.type = "synchronization" /\ job[t].done =>
           job[t].rows = UNION {Unread(k, job[t].query.since) :
                                  k \in ChatsOf(userId[job[t].client])}
<1>1. ServiceInv => A
  BY SnapshotByChat DEF ServiceInv, SyncIsWhole, SendResponse
<1>2. ServiceInv /\ [Next]_vars => [A]_vars
  BY <1>1
<1> HIDE DEF A
<1>3. Spec => [][A]_vars
  BY <1>2, ServiceInvariant, PTL DEF Spec
<1> QED BY <1>3, PTL DEF SyncIsSnapshot, A

-----------------------------------------------------------------------------
(* The answer that a job has come to.                                      *)
Told(j) == [query |-> j.query, code |-> j.code, number |-> j.number,
            rows |-> j.rows, done |-> j.done]

(* The refinement mapping: the answer that a job holds and has not sent.   *)
LEMMA PendingAt ==
  ASSUME NEW c \in Connections, NEW t \in Threads
  PROVE  /\ Pending[c] = IF job[t].step = "reply" /\ job[t].client = c
                         THEN Told(job[t]) ELSE Service!Nothing
         /\ Pending'[c] = IF job'[t].step = "reply" /\ job'[t].client = c
                          THEN Told(job'[t]) ELSE Service!Nothing
<1>1. \A u \in Threads : u = t
  BY OneThread
<1>2. Completed(c) = IF job[t].step = "reply" /\ job[t].client = c THEN {t} ELSE {}
  BY <1>1 DEF Completed
<1>3. Completed(c)' = IF job'[t].step = "reply" /\ job'[t].client = c THEN {t} ELSE {}
  BY <1>1 DEF Completed
<1>4. (CHOOSE u \in {t} : TRUE) = t
  OBVIOUS
<1>5. Pending[c] = IF job[t].step = "reply" /\ job[t].client = c
                   THEN Told(job[t]) ELSE Service!Nothing
  BY <1>2, <1>4 DEF Pending, Told, Service!Nothing, NoQuery
<1>6. Pending'[c] = IF job'[t].step = "reply" /\ job'[t].client = c
                    THEN Told(job'[t]) ELSE Service!Nothing
  BY <1>3, <1>4 DEF Pending, Told, Service!Nothing, NoQuery
<1> QED BY <1>5, <1>6

LEMMA PendingDomain ==
  /\ DOMAIN Pending = Connections /\ DOMAIN Pending' = Connections
  /\ Pending = [c \in Connections |-> Pending[c]]
  /\ Pending' = [c \in Connections |-> Pending'[c]]
  BY DEF Pending

(* A step that leaves the jobs alone, or moves one between two statements, *)
(* is not seen.                                                            *)
LEMMA PendingStays ==
  ASSUME \/ UNCHANGED job
         \/ \A t \in Threads : job[t].step # "reply" /\ job'[t].step # "reply"
  PROVE  Pending' = Pending
<1>1. ASSUME NEW c \in Connections PROVE Pending'[c] = Pending[c]
  <2>1. SlotThread(c) \in Threads
    BY DEF Threads
  <2> QED BY <2>1, PendingAt
<1> QED BY <1>1, PendingDomain

(* The completing statement of a query is seen as its execution.           *)
LEMMA PendingSet ==
  ASSUME NEW t \in Threads, NEW c \in Connections, NEW k,
         job[t].step # "reply", job'[t] = k, k.step = "reply", k.client = c
  PROVE  Pending[c] = Service!Nothing /\ Pending' = [Pending EXCEPT ![c] = Told(k)]
<1>1. Pending[c] = Service!Nothing /\ Pending'[c] = Told(k)
  BY PendingAt
<1>2. \A d \in Connections : d # c => Pending'[d] = Pending[d]
  BY PendingAt
<1> QED BY <1>1, <1>2, PendingDomain

(* The sending of the reply is seen as its delivery.                       *)
LEMMA PendingCleared ==
  ASSUME NEW t \in Threads, NEW c \in Connections,
         job[t].step = "reply", job[t].client = c, job'[t] = Idle
  PROVE  /\ Pending[c] = Told(job[t])
         /\ Pending' = [Pending EXCEPT ![c] = Service!Nothing]
<1>1. Pending[c] = Told(job[t]) /\ Pending'[c] = Service!Nothing
  BY PendingAt DEF Idle
<1>2. \A d \in Connections : d # c => Pending'[d] = Pending[d]
  BY PendingAt DEF Idle
<1> QED BY <1>1, <1>2, PendingDomain

-----------------------------------------------------------------------------
(* The initial states map to initial states.                               *)
LEMMA ServiceInit == Init => Service!Init
<1> SUFFICES ASSUME Init PROVE Service!Init
  OBVIOUS
<1>1. Pending = [c \in Connections |-> Service!Nothing]
  <2>1. \A t \in Threads : job[t].step = "idle"
    BY DEF Init, Idle
  <2>2. ASSUME NEW c \in Connections PROVE Pending[c] = Service!Nothing
    <3>1. SlotThread(c) \in Threads
      BY DEF Threads
    <3> QED BY <2>1, <3>1, PendingAt
  <2> QED BY <2>2, PendingDomain
<1>2. NoQuery = Service!NoQuery /\ Service!Nothing = [query |-> NoQuery]
  BY DEF NoQuery, Service!NoQuery, Service!Nothing
<1> QED BY <1>1, <1>2 DEF Init, Service!Init

LEMMA ServiceStutter ==
  ASSUME UNCHANGED <<database, userId, clients, failures>>, Pending' = Pending
  PROVE  UNCHANGED Service!serviceVars
  BY DEF database, clients, Service!serviceVars, Service!data, Service!clients

(* A client asks.                                                          *)
LEMMA ServiceAsks ==
  ASSUME NEW c \in Connections, Ask(c)
  PROVE  Service!Ask(c)
<1>1. Pending' = Pending
  BY PendingStays DEF Ask
<1>2. \E q \in Queries : waiting' = [waiting EXCEPT ![c] = q]
  BY DEF Ask
<1> QED BY <1>1, <1>2 DEF Ask, Service!Ask, NoQuery, Service!NoQuery, Service!Nothing,
  database, identity, Service!data

(* processQuery starts on a query unseen, or drops one it does not know.   *)
LEMMA ServiceStarts ==
  ASSUME ServiceInv, NEW c \in Connections, ProcessQuery(c)
  PROVE  Service!Drop(c) \/ UNCHANGED Service!serviceVars
<1> DEFINE t == SlotThread(c)
<1>1. TypeOK /\ t \in Threads /\ job[t] = Idle /\ waiting[c] \in Queries
  BY DEF ServiceInv, QueryInv, BaseInv, ProcessQuery, TypeOK, Threads
<1>2. CASE waiting[c].type \in DOMAIN FirstStep
  <2>1. PICK k : /\ job' = [job EXCEPT ![t] = k] /\ k.step = FirstStep[waiting[c].type]
                 /\ UNCHANGED waiting
    BY <1>2 DEF ProcessQuery
  <2>2. \A u \in Threads : job[u] = Idle /\ job'[u] = k
    BY <1>1, <2>1, TheJob
  <2>3. Pending' = Pending
    BY <1>2, <2>1, <2>2, PendingStays DEF FirstStep, Idle
  <2> QED BY <2>1, <2>3, ServiceStutter DEF ProcessQuery, identity, clients
<1>3. CASE waiting[c].type \notin DOMAIN FirstStep
  <2>1. waiting' = [waiting EXCEPT ![c] = NoQuery] /\ UNCHANGED job
    BY <1>3 DEF ProcessQuery
  <2>2. waiting[c].type \in Service!Unserved
    BY <1>1, <1>3, QueriesAssumption DEF QueryTypes, FirstStep, Service!Unserved
  <2>3. Pending' = Pending
    BY <2>1, PendingStays
  <2> QED BY <2>1, <2>2, <2>3 DEF ProcessQuery, Service!Drop, NoQuery,
      Service!NoQuery, Service!Nothing, database, identity, Service!data
<1> QED BY <1>2, <1>3

(* sendResponse.                                                           *)
LEMMA ServiceDelivers ==
  ASSUME ServiceInv, NEW t \in Threads, SendResponse(t)
  PROVE  \E c \in Connections : Service!Deliver(c)
<1> DEFINE c == job[t].client
<1>1. TypeOK /\ job[t] \in Job /\ c \in Connections /\ job[t].query \in Queries
  BY AtWork DEF ServiceInv, QueryInv, BaseInv, SendResponse, Job
<1>2. job'[t] = Idle
  BY <1>1, TheJob DEF SendResponse
<1>3. /\ Pending[c] = Told(job[t])
      /\ Pending' = [Pending EXCEPT ![c] = Service!Nothing]
  BY <1>1, <1>2, PendingCleared DEF SendResponse
<1>4. reply' = [reply EXCEPT ![c] = Pending[c]]
  BY <1>3 DEF SendResponse, Told
<1>5. Pending[c] # Service!Nothing
  <2>1. job[t].query # NoQuery
    BY <1>1, NoQueryIsNone
  <2>2. Told(job[t]).query = job[t].query /\ Service!Nothing.query = NoQuery
    BY DEF Told, Service!Nothing, NoQuery
  <2> QED BY <1>3, <2>1, <2>2
<1>6. Service!Deliver(c)
  BY <1>3, <1>4, <1>5 DEF SendResponse, Service!Deliver, NoQuery, Service!NoQuery,
     Service!Nothing, database, identity, Service!data
<1> QED BY <1>1, <1>6

-----------------------------------------------------------------------------
(* The two vocabularies say the same of the database.                      *)
LEMMA SameWords ==
  /\ Service!data = database /\ Service!clients = clients
  /\ Service!NoQuery = NoQuery
  /\ Service!Sound <=> Clean
  /\ Service!Failed <=> Fails
  /\ \A user : Service!Joined(user) = ChatsOf(user)
  /\ \A user, since : Service!Snapshot(user, since) = UnreadOf(user, since)
  /\ \A user, k : Service!Present(user, k) <=> Exists(user, k)
  /\ \A email : Service!OwnersOf(email) = AccountsOf(email)
<1>1. Service!data = database /\ Service!clients = clients /\ Service!NoQuery = NoQuery
  BY DEF Service!data, database, Service!clients, clients, Service!NoQuery, NoQuery,
     Service!Nothing
<1>2. (Service!Sound <=> Clean) /\ (Service!Failed <=> Fails)
  BY DEF Service!Sound, Clean, Service!Failed, Fails
<1>3. \A user : Service!Joined(user) = ChatsOf(user)
  BY DEF Service!Joined, ChatsOf
<1>4. \A user, since : Service!Snapshot(user, since) = UnreadOf(user, since)
  BY <1>3 DEF Service!Snapshot, UnreadOf
<1>5. \A user, k : Service!Present(user, k) <=> Exists(user, k)
  BY DEF Service!Present, Exists
<1>6. \A email : Service!OwnersOf(email) = AccountsOf(email)
  BY DEF Service!OwnersOf, AccountsOf
<1> QED BY <1>1, <1>2, <1>3, <1>4, <1>5, <1>6

LEMMA SameAccounts ==
  ASSUME TypeOK, NEW q
  PROVE  Service!ProvenBy(q) = Known(q.email, q.password)
<1>1. \A a \in DOMAIN accounts :
        accounts[a] = [email |-> q.email, password |-> q.password]
          <=> accounts[a].email = q.email /\ accounts[a].password = q.password
  <2> TAKE a \in DOMAIN accounts
  <2>1. accounts[a] \in Account
    BY DEF TypeOK
  <2> QED BY <2>1 DEF Account
<1> QED BY <1>1 DEF Service!ProvenBy, Service!OwnersOf, Known

(* A statement that leads to another one is not seen; at most it fails.    *)
LEMMA Unseen ==
  ASSUME ServiceInv, NEW t \in Threads, Statement(t), NEW k,
         job' = [job EXCEPT ![t] = k], k.step # "reply",
         UNCHANGED <<database, userId>>, Clean \/ Fails
  PROVE  Service!Falter \/ UNCHANGED Service!serviceVars
<1>1. TypeOK /\ UNCHANGED clients /\ job[t].step # "reply"
  BY AtStatement
<1>2. \A u \in Threads : job[u].step # "reply" /\ job'[u].step # "reply"
  BY <1>1, TheJob
<1>3. Pending' = Pending
  BY <1>2, PendingStays
<1>4. UNCHANGED <<Service!data, Service!clients>>
  BY <1>1 DEF Service!data, Service!clients, database, clients
<1>5. CASE Clean
  BY <1>3, <1>4, <1>5 DEF Service!serviceVars, Clean
<1>6. CASE Fails
  <2>1. Service!Failed
    BY <1>6, SameWords
  <2> QED BY <1>3, <1>4, <2>1 DEF Service!Falter
<1> QED BY <1>5, <1>6

(* The job k is the job j, come to the given answer.                       *)
Holds(k, j, code, number, rows, done) ==
    /\ k.step = "reply" /\ k.client = j.client /\ k.query = j.query
    /\ k.code = code /\ k.number = number /\ k.rows = rows /\ k.done = done

(* The answers that statements put into a blank job.                       *)
LEMMA AnswerInJob ==
  ASSUME NEW j \in Job, Blank(j), NEW n, NEW r, NEW d
  PROVE  /\ Holds([j EXCEPT !.step = "reply", !.code = n], j, n, 0, {}, TRUE)
         /\ Holds([j EXCEPT !.step = "reply", !.number = n, !.done = d], j, 0, n, {}, d)
         /\ Holds([j EXCEPT !.step = "reply", !.rows = r, !.done = d], j, 0, 0, r, d)
         /\ Holds([j EXCEPT !.step = "reply", !.done = d], j, 0, 0, {}, d)
  BY DEF Job, Blank, Holds

(* A statement that completes the query puts the answer into the job, and  *)
(* so decides the outcome of the query.                                    *)
LEMMA Decides ==
  ASSUME ServiceInv, NEW t \in Threads, Statement(t), NEW k,
         NEW code, NEW number, NEW rows, NEW done,
         job' = [job EXCEPT ![t] = k],
         Holds(k, job[t], code, number, rows, done)
  PROVE  /\ Service!Answer(job[t].client, code, number, rows, done)
         /\ Pending[job[t].client] = Service!Nothing
         /\ waiting[job[t].client] = job[t].query
         /\ waiting[job[t].client] # Service!NoQuery
         /\ UNCHANGED Service!clients
<1> DEFINE c == job[t].client
<1>1. /\ TypeOK /\ UNCHANGED clients /\ job[t].step # "reply" /\ c \in Connections
      /\ waiting[c] = job[t].query /\ waiting[c] # NoQuery
  BY AtStatement
<1>2. job'[t] = k
  BY <1>1, TheJob
<1>3. Pending[c] = Service!Nothing /\ Pending' = [Pending EXCEPT ![c] = Told(k)]
  BY <1>1, <1>2, PendingSet DEF Holds
<1>4. Service!Answer(c, code, number, rows, done)
  BY <1>1, <1>3 DEF Service!Answer, Told, Holds
<1>5. UNCHANGED Service!clients
  BY <1>1 DEF Service!clients, clients
<1> QED BY <1>1, <1>3, <1>4, <1>5, SameWords

(* What has to be shown of each kind of query.                             *)
Completes(t) ==
    LET c == job[t].client  q == job[t].query IN
    \/ q.type = "login" /\ Service!Login(c, q)
    \/ Service!Serve(c, q) /\ UNCHANGED userId

(* The step of the abstract specification that a statement is.             *)
Served == \/ Service!Falter
          \/ UNCHANGED Service!serviceVars
          \/ \E c \in Connections : Service!Execute(c)

LEMMA Executed ==
  ASSUME ServiceInv, NEW t \in Threads, Statement(t), NEW k,
         NEW code, NEW number, NEW rows, NEW done,
         job' = [job EXCEPT ![t] = k],
         Holds(k, job[t], code, number, rows, done),
         Service!Answer(job[t].client, code, number, rows, done) => Completes(t)
  PROVE  Served
<1>1. job[t].client \in Connections
  BY AtStatement
<1>2. /\ Pending[job[t].client] = Service!Nothing
      /\ waiting[job[t].client] = job[t].query
      /\ waiting[job[t].client] # Service!NoQuery
      /\ UNCHANGED Service!clients
      /\ Service!Answer(job[t].client, code, number, rows, done)
  BY Decides
<1>3. Service!Execute(job[t].client)
  BY <1>2, Zenon DEF Service!Execute, Completes
<1> QED BY <1>1, <1>3 DEF Served

(* The first statement of a query, and the only one of most, starts from a *)
(* blank answer.                                                           *)
LEMMA StartsBlank ==
  ASSUME ServiceInv, NEW t \in Threads, Statement(t), job[t].step \notin Reading
  PROVE  job[t] \in Job /\ Blank(job[t])
  BY AtStatement DEF ServiceInv, BlankUntilDecided

-----------------------------------------------------------------------------
(* Statements that read rows.                                              *)
LEMMA UsersServed ==
  ASSUME ServiceInv, NEW t \in Threads, GetListOfUsers(t)
  PROVE  Served
<1> DEFINE j == job[t]
<1>1. Statement(t) /\ j.step = "getListOfUsers"
  BY DEF Statement, GetListOfUsers, At
<1>2. j \in Job /\ Blank(j) /\ j.query.type = "users"
  BY <1>1, StartsBlank DEF Reading, ServiceInv, Serves
<1>3. PICK got :
        /\ \/ got = DOMAIN accounts /\ Clean
           \/ got = {} /\ Fails
        /\ UNCHANGED <<database, identity>>
        /\ job' = [job EXCEPT ![t] = [j EXCEPT !.step = "reply", !.rows = got, !.done = Clean]]
  BY DEF GetListOfUsers, Outcome, Clean, Fails, Reads
<1> PICK d \in BOOLEAN : d = Clean
  BY DEF Clean
<1>5. (Clean => d = TRUE) /\ (Fails => d = FALSE)
  BY <1>1, AtStatement, CleanOrFails
<1>4. ASSUME Service!Answer(j.client, 0, 0, got, d) PROVE Completes(t)
  <2>1. UNCHANGED <<Service!data, userId>>
    BY <1>3 DEF Service!data, database, identity
  <2>2. Service!Read(j.client, DOMAIN accounts)
    BY <1>3, <1>4, <1>5, <2>1, SameWords DEF Service!Read
  <2> QED BY <1>2, <2>1, <2>2 DEF Completes, Service!Serve
<1> QED BY <1>1, <1>2, <1>3, <1>4, AnswerInJob, Executed

LEMMA ChatsServed ==
  ASSUME ServiceInv, NEW t \in Threads, GetListOfChats(t), ~ Syncs(t)
  PROVE  Served
<1> DEFINE j == job[t]
           own == ChatsOf(userId[j.client])
<1>1. Statement(t) /\ j.step = "getListOfChats"
  BY DEF Statement, GetListOfChats, At
<1>2. j \in Job /\ Blank(j) /\ j.query.type = "chats"
  BY <1>1, StartsBlank DEF Reading, ServiceInv, Serves, Syncs, Scans
<1>3. PICK got :
        /\ \/ got = own /\ Clean
           \/ got = {} /\ Fails
        /\ UNCHANGED <<database, identity>>
        /\ job' = [job EXCEPT ![t] = [j EXCEPT !.step = "reply", !.rows = got, !.done = Clean]]
  BY <1>2 DEF GetListOfChats, Outcome, Clean, Fails, Reads
<1> PICK d \in BOOLEAN : d = Clean
  BY DEF Clean
<1>4. (Clean => d = TRUE) /\ (Fails => d = FALSE)
  BY <1>1, AtStatement, CleanOrFails
<1>5. ASSUME Service!Answer(j.client, 0, 0, got, d) PROVE Completes(t)
  <2>1. UNCHANGED <<Service!data, userId>>
    BY <1>3 DEF Service!data, database, identity
  <2>2. own = Service!Joined(userId[j.client])
    BY SameWords
  <2>3. Service!Read(j.client, Service!Joined(userId[j.client]))
    BY <1>3, <1>4, <1>5, <2>1, <2>2, SameWords DEF Service!Read
  <2> QED BY <1>2, <2>1, <2>3 DEF Completes, Service!Serve
<1> QED BY <1>1, <1>2, <1>3, <1>5, AnswerInJob, Executed

(* A synchronisation: its statements are not seen but for the last one,    *)
(* which completes the snapshot.                                           *)
LEMMA SyncServed ==
  ASSUME ServiceInv, NEW t \in Threads, Syncs(t)
  PROVE  Served
<1> DEFINE j == job[t]
           c == j.client
<1>1. Statement(t)
  BY DEF Syncs, Scans, Statement
<1>2. PICK k : job' = [job EXCEPT ![t] = k] /\ Scanned(j, k)
  BY SyncScans
<1>3. UNCHANGED <<database, userId>>
  BY <1>2 DEF Scanned, identity
<1>4. CASE k.step # "reply"
  BY <1>1, <1>2, <1>3, <1>4, Unseen DEF Scanned, Served
<1>5. CASE k.step = "reply"
  <2> DEFINE all == UnreadOf(userId[c], j.query.since)
  <2>1. Holds(k, j, 0, 0, k.rows, k.done)
    BY <1>2, <1>5 DEF Scanned, Holds
  <2>2. k.rows \subseteq all /\ (k.done => k.rows = all)
    <3>1. k.todo \cup k.found = {}
      BY <1>2, <1>5 DEF Scanned, SyncStep
    <3> QED BY <1>2, <3>1 DEF Scanned
  <2>3. j.done = TRUE \/ failures > 0
    BY <1>1, AtStatement DEF Syncs, Scans, GetListOfChats, HasUnreadMessages,
       GetUnreadMessages, At, ServiceInv, BlankUntilDecided, Blank,
       SyncOnCourse, OnCourse, Reading
  <2>4. \/ k.done = TRUE /\ Clean
        \/ k.done = FALSE /\ ((failures > 0 /\ Clean) \/ Fails)
    BY <1>2, <2>3 DEF Scanned, Job
  <2>5. ASSUME Service!Answer(c, 0, 0, k.rows, k.done) PROVE Completes(t)
    <3>1. UNCHANGED Service!data
      BY <1>3 DEF Service!data, database
    <3>2. all = Service!Snapshot(userId[c], j.query.since)
      BY SameWords
    <3>3. Service!Synchronization(c, j.query.since)
      <4>1. CASE k.done = TRUE /\ Clean
        <5>1. Service!Answer(c, 0, 0, Service!Snapshot(userId[c], j.query.since), TRUE)
          BY <2>2, <2>5, <3>2, <4>1
        <5>2. Service!Sound
          BY <4>1, SameWords
        <5> QED BY <3>1, <5>1, <5>2 DEF Service!Synchronization
      <4>2. CASE k.done = FALSE /\ ((failures > 0 /\ Clean) \/ Fails)
        <5>1. Service!Answer(c, 0, 0, k.rows, FALSE)
          BY <2>5, <4>2
        <5>2. (failures > 0 /\ Service!Sound) \/ Service!Failed
          BY <4>2, SameWords
        <5>3. k.rows \in SUBSET Service!Snapshot(userId[c], j.query.since)
          BY <2>2, <3>2
        <5> QED BY <3>1, <5>1, <5>2, <5>3 DEF Service!Synchronization
      <4> QED BY <2>4, <4>1, <4>2
    <3> QED BY <1>3, <3>3 DEF Syncs, Completes, Service!Serve
  <2> QED BY <1>1, <1>2, <2>1, <2>5, Executed
<1> QED BY <1>4, <1>5

-----------------------------------------------------------------------------
(* Login: the first statement answers "wrong" or is not seen.              *)
LEMMA VerifyServed ==
  ASSUME ServiceInv, NEW t \in Threads, VerifyLogIn(t)
  PROVE  Served
<1> DEFINE j == job[t]
           known == Known(j.query.email, j.query.password)
<1>1. Statement(t) /\ j.step = "verifyLogIn"
  BY DEF Statement, VerifyLogIn, At
<1>2. j \in Job /\ Blank(j) /\ j.query.type = "login"
  BY <1>1, StartsBlank DEF Reading, ServiceInv, QueryInv, BaseInv, Dispatched
<1>3. PICK got \in BOOLEAN :
        /\ \/ got = (known # {}) /\ Clean
           \/ got = FALSE /\ Fails
        /\ UNCHANGED <<database, userId>>
        /\ job' = [job EXCEPT ![t] =
             IF got THEN [j EXCEPT !.step = "getUserId"]
                    ELSE [j EXCEPT !.step = "reply", !.code = 1]]
  BY DEF VerifyLogIn, Outcome, Clean, Fails, Reads
<1>4. CASE got
  <2>1. job' = [job EXCEPT ![t] = [j EXCEPT !.step = "getUserId"]]
    BY <1>3, <1>4
  <2>2. [j EXCEPT !.step = "getUserId"].step # "reply"
    BY <1>2 DEF Job
  <2>3. Clean \/ Fails
    BY <1>3
  <2> QED BY <1>1, <1>3, <2>1, <2>2, <2>3, Unseen DEF Served
<1>5. CASE ~ got
  <2>1. job' = [job EXCEPT ![t] = [j EXCEPT !.step = "reply", !.code = 1]]
    BY <1>3, <1>5
  <2>2. ASSUME Service!Answer(j.client, 1, 0, {}, TRUE) PROVE Completes(t)
    <3>1. known = Service!ProvenBy(j.query)
      BY <1>1, AtStatement, SameAccounts
    <3>2. (known = {} /\ Clean) \/ Fails
      BY <1>3, <1>5
    <3>3. UNCHANGED <<Service!data, userId>>
      BY <1>3 DEF Service!data, database
    <3>4. (Service!ProvenBy(j.query) = {} /\ Service!Sound) \/ Service!Failed
      BY <3>1, <3>2, SameWords
    <3>5. Service!Login(j.client, j.query)
      BY <2>2, <3>3, <3>4 DEF Service!Login
    <3> QED BY <1>2, <3>5 DEF Completes
  <2> QED BY <1>1, <1>2, <2>1, <2>2, AnswerInJob, Executed
<1> QED BY <1>4, <1>5

(* Login: the second statement finds the account whose password was given. *)
LEMMA UserIdServed ==
  ASSUME ServiceInv, NEW t \in Threads, GetUserId(t)
  PROVE  Served
<1> DEFINE j == job[t]
           known == Known(j.query.email, j.query.password)
<1>1. Statement(t) /\ j.step = "getUserId"
  BY DEF Statement, GetUserId, At
<1>2. j \in Job /\ Blank(j) /\ j.query.type = "login"
  BY <1>1, StartsBlank DEF Reading, ServiceInv, QueryInv, BaseInv, Dispatched
<1>3. PICK got :
        /\ \/ got = FirstAccountOf(j.query.email) /\ Clean
           \/ got = 0 /\ Fails
        /\ UNCHANGED database
        /\ userId' = [userId EXCEPT ![j.client] = got]
        /\ job' = [job EXCEPT ![t] =
             [j EXCEPT !.step = "reply", !.number = got, !.done = got # 0]]
  BY DEF GetUserId, Outcome, Clean, Fails, Reads
<1>4. known # {}
  BY <1>1 DEF ServiceInv, QueryInv, IdentityInv, PasswordIsProven
<1>5. FirstAccountOf(j.query.email) \in known /\ 0 \notin known
  <2>1. BaseInv /\ EmailUnique /\ TypeOK
    BY DEF ServiceInv, QueryInv, AccountsInv, BaseInv
  <2>2. 0 \notin DOMAIN accounts
    BY <2>1 DEF TypeOK
  <2> QED BY <1>4, <2>1, <2>2, TheOneAccount DEF Known
<1>6. known = Service!ProvenBy(j.query)
  BY <1>1, AtStatement, SameAccounts
<1> PICK d \in BOOLEAN : d = (got # 0)
  OBVIOUS
<1>7. ASSUME Service!Answer(j.client, 0, got, {}, d) PROVE Completes(t)
  <2>1. UNCHANGED Service!data
    BY <1>3 DEF Service!data, database
  <2>2. CASE got = FirstAccountOf(j.query.email) /\ Clean
    <3>1. got \in Service!ProvenBy(j.query) /\ d = TRUE /\ Service!Sound
      BY <1>5, <1>6, <2>2, SameWords
    <3>2. Service!Answer(j.client, 0, got, {}, TRUE)
      BY <1>7, <3>1
    <3> QED BY <1>2, <1>3, <2>1, <3>1, <3>2 DEF Service!Login, Completes
  <2>3. CASE got = 0 /\ Fails
    <3>1. Service!Answer(j.client, 0, 0, {}, FALSE) /\ Service!Failed
      BY <1>7, <2>3, SameWords
    <3>2. userId' = [userId EXCEPT ![j.client] = 0] /\ Service!ProvenBy(j.query) # {}
      BY <1>3, <1>4, <1>6, <2>3
    <3> QED BY <1>2, <2>1, <3>1, <3>2 DEF Service!Login, Completes
  <2> QED BY <1>3, <2>2, <2>3
<1> QED BY <1>1, <1>2, <1>3, <1>7, AnswerInJob, Executed

(* Registration: the first statement answers "taken" or is not seen.       *)
LEMMA AvailableServed ==
  ASSUME ServiceInv, NEW t \in Threads, IsEmailAvailable(t)
  PROVE  Served
<1> DEFINE j == job[t]
           free == AccountsOf(j.query.email) = {}
<1>1. Statement(t) /\ j.step = "isEmailAvailable"
  BY DEF Statement, IsEmailAvailable, At
<1>2. j \in Job /\ Blank(j) /\ j.query.type = "registration"
  BY <1>1, StartsBlank DEF Reading, ServiceInv, QueryInv, BaseInv, Dispatched
<1>3. PICK got \in BOOLEAN :
        /\ \/ got = free /\ Clean
           \/ got = FALSE /\ Fails
        /\ UNCHANGED <<database, userId>>
        /\ job' = [job EXCEPT ![t] =
             IF got THEN [j EXCEPT !.step = "registerNewUser"]
                    ELSE [j EXCEPT !.step = "reply", !.code = 1]]
  BY DEF IsEmailAvailable, Outcome, Clean, Fails, Reads, identity
<1>4. CASE got
  <2>1. job' = [job EXCEPT ![t] = [j EXCEPT !.step = "registerNewUser"]]
    BY <1>3, <1>4
  <2>2. [j EXCEPT !.step = "registerNewUser"].step # "reply"
    BY <1>2 DEF Job
  <2>3. Clean \/ Fails
    BY <1>3
  <2> QED BY <1>1, <1>3, <2>1, <2>2, <2>3, Unseen DEF Served
<1>5. CASE ~ got
  <2>1. job' = [job EXCEPT ![t] = [j EXCEPT !.step = "reply", !.code = 1]]
    BY <1>3, <1>5
  <2>2. ASSUME Service!Answer(j.client, 1, 0, {}, TRUE) PROVE Completes(t)
    <3>1. (~ free /\ Clean) \/ Fails
      BY <1>3, <1>5
    <3>2. UNCHANGED <<Service!data, userId>>
      BY <1>3 DEF Service!data, database
    <3>3. (~ (Service!OwnersOf(j.query.email) = {}) /\ Service!Sound) \/ Service!Failed
      BY <3>1, SameWords
    <3>4. Service!Registration(j.client, j.query)
      BY <2>2, <3>2, <3>3 DEF Service!Registration
    <3> QED BY <1>2, <3>2, <3>4 DEF Completes, Service!Serve
  <2> QED BY <1>1, <1>2, <2>1, <2>2, AnswerInJob, Executed
<1> QED BY <1>4, <1>5

(* Registration: the second statement opens the account, the address being *)
(* still free.                                                             *)
LEMMA RegisterServed ==
  ASSUME ServiceInv, NEW t \in Threads, RegisterNewUser(t)
  PROVE  Served
<1> DEFINE j == job[t]
           account == [email |-> j.query.email, password |-> j.query.password]
           open == accounts' = Append(accounts, account) /\ UNCHANGED <<chats, messages>>
<1>1. Statement(t) /\ j.step = "registerNewUser"
  BY DEF Statement, RegisterNewUser, At
<1>2. j \in Job /\ Blank(j) /\ j.query.type = "registration"
  BY <1>1, StartsBlank DEF Reading, ServiceInv, QueryInv, BaseInv, Dispatched
<1>3. PICK n :
        /\ \/ n = 0 /\ Clean /\ open
           \/ n = 1 /\ Fails /\ (open \/ UNCHANGED database)
        /\ UNCHANGED userId
        /\ job' = [job EXCEPT ![t] = [j EXCEPT !.step = "reply", !.code = n]]
  <2>1. PICK got \in BOOLEAN :
          /\ \/ got = TRUE /\ Clean /\ open
             \/ got = FALSE /\ Fails /\ (open \/ UNCHANGED database)
          /\ UNCHANGED userId
          /\ job' = [job EXCEPT ![t] =
               [j EXCEPT !.step = "reply", !.code = IF got THEN 0 ELSE 1]]
    BY DEF RegisterNewUser, Outcome, Clean, Fails, identity
  <2> QED BY <2>1
<1>4. Service!OwnersOf(j.query.email) = {}
  BY <1>1, SameWords DEF ServiceInv, QueryInv, AccountsInv, AddressIsFree
<1>5. ASSUME Service!Answer(j.client, n, 0, {}, TRUE) PROVE Completes(t)
  <2>1. UNCHANGED database => UNCHANGED Service!data
    BY DEF Service!data, database
  <2>2. Service!Registration(j.client, j.query)
    <3>1. CASE n = 0 /\ Clean /\ open
      <4>1. Service!Answer(j.client, 0, 0, {}, TRUE) /\ Service!Sound
        BY <1>5, <3>1, SameWords
      <4> QED BY <1>4, <3>1, <4>1 DEF Service!Registration
    <3>2. CASE n = 1 /\ Fails /\ (open \/ UNCHANGED database)
      <4>1. Service!Answer(j.client, 1, 0, {}, TRUE) /\ Service!Failed
        BY <1>5, <3>2, SameWords
      <4> QED BY <1>4, <2>1, <3>2, <4>1 DEF Service!Registration
    <3> QED BY <1>3, <3>1, <3>2
  <2> QED BY <1>2, <1>3, <2>2 DEF Completes, Service!Serve
<1> QED BY <1>1, <1>2, <1>3, <1>5, AnswerInJob, Executed

-----------------------------------------------------------------------------
(* Statements that change chats and messages.                              *)
LEMMA CreateServed ==
  ASSUME ServiceInv, NEW t \in Threads, CreateNewChat(t)
  PROVE  Served
<1> DEFINE j == job[t]
           owner == userId[j.client]
           legal == owner \in DOMAIN accounts
           made == chats' = Append(chats, {owner}) /\ UNCHANGED <<accounts, messages>>
<1>1. Statement(t) /\ j.step = "createNewChat"
  BY DEF Statement, CreateNewChat, At
<1>2. j \in Job /\ Blank(j) /\ j.query.type = "create"
  BY <1>1, StartsBlank DEF Reading, ServiceInv, QueryInv, BaseInv, Dispatched
<1>3. Len(chats) + 1 # 0
  BY <1>1, AtStatement DEF TypeOK
<1>4. PICK got :
        /\ \/ got = Len(chats) + 1 /\ Clean /\ legal /\ made
           \/ got = 0 /\ Clean /\ ~ legal /\ UNCHANGED database
           \/ got = 0 /\ Fails /\ ((legal /\ made) \/ UNCHANGED database)
        /\ UNCHANGED userId
        /\ job' = [job EXCEPT ![t] =
             [j EXCEPT !.step = "reply", !.number = got, !.done = got # 0]]
  BY <1>3 DEF CreateNewChat, Outcome, Clean, Fails, identity, database
<1> PICK d \in BOOLEAN : d = (got # 0)
  OBVIOUS
<1>5. ASSUME Service!Answer(j.client, 0, got, {}, d) PROVE Completes(t)
  <2>1. UNCHANGED database => UNCHANGED Service!data
    BY DEF Service!data, database
  <2>2. Service!Create(j.client)
    <3>1. CASE got = Len(chats) + 1 /\ Clean /\ legal /\ made
      <4>1. Service!Answer(j.client, 0, Len(chats) + 1, {}, TRUE) /\ Service!Sound
        BY <1>3, <1>5, <3>1, SameWords
      <4> QED BY <3>1, <4>1 DEF Service!Create, Service!Change
    <3>2. CASE got = 0 /\ Clean /\ ~ legal /\ UNCHANGED database
      <4>1. Service!Answer(j.client, 0, 0, {}, FALSE) /\ Service!Sound
        BY <1>5, <3>2, SameWords
      <4> QED BY <2>1, <3>2, <4>1 DEF Service!Create, Service!Change
    <3>3. CASE got = 0 /\ Fails /\ ((legal /\ made) \/ UNCHANGED database)
      <4>1. Service!Answer(j.client, 0, 0, {}, FALSE) /\ Service!Failed
        BY <1>5, <3>3, SameWords
      <4> QED BY <2>1, <3>3, <4>1 DEF Service!Create, Service!Change
    <3> QED BY <1>4, <3>1, <3>2, <3>3
  <2> QED BY <1>2, <1>4, <2>2 DEF Completes, Service!Serve
<1> QED BY <1>1, <1>2, <1>4, <1>5, AnswerInJob, Executed

LEMMA SendServed ==
  ASSUME ServiceInv, NEW t \in Threads, SendMessage(t)
  PROVE  Served
<1> DEFINE j == job[t]
           k == j.query.chat
           sender == userId[j.client]
           legal == Exists(sender, k)
           made == /\ messages' = Append(messages,
                        [chat |-> k, sender |-> sender, via |-> j.client])
                   /\ UNCHANGED <<accounts, chats>>
<1>1. Statement(t) /\ j.step = "sendMessage"
  BY DEF Statement, SendMessage, At
<1>2. j \in Job /\ Blank(j) /\ j.query.type = "send"
  BY <1>1, StartsBlank DEF Reading, ServiceInv, QueryInv, BaseInv, Dispatched
<1>3. Len(messages) + 1 # 0
  BY <1>1, AtStatement DEF TypeOK
<1>4. PICK got :
        /\ \/ got = Len(messages) + 1 /\ Clean /\ legal /\ made
           \/ got = 0 /\ Clean /\ ~ legal /\ UNCHANGED database
           \/ got = 0 /\ Fails /\ ((legal /\ made) \/ UNCHANGED database)
        /\ UNCHANGED userId
        /\ job' = [job EXCEPT ![t] =
             [j EXCEPT !.step = "reply", !.number = got, !.done = got # 0]]
  BY <1>3 DEF SendMessage, Outcome, Clean, Fails, identity, database
<1> PICK d \in BOOLEAN : d = (got # 0)
  OBVIOUS
<1>5. ASSUME Service!Answer(j.client, 0, got, {}, d) PROVE Completes(t)
  <2>1. UNCHANGED database => UNCHANGED Service!data
    BY DEF Service!data, database
  <2>2. Service!Present(sender, k) <=> legal
    BY SameWords
  <2>3. Service!Send(j.client, k)
    <3>1. CASE got = Len(messages) + 1 /\ Clean /\ legal /\ made
      <4>1. Service!Answer(j.client, 0, Len(messages) + 1, {}, TRUE) /\ Service!Sound
        BY <1>3, <1>5, <3>1, SameWords
      <4> QED BY <2>2, <3>1, <4>1 DEF Service!Send, Service!Change
    <3>2. CASE got = 0 /\ Clean /\ ~ legal /\ UNCHANGED database
      <4>1. Service!Answer(j.client, 0, 0, {}, FALSE) /\ Service!Sound
        BY <1>5, <3>2, SameWords
      <4> QED BY <2>1, <2>2, <3>2, <4>1 DEF Service!Send, Service!Change
    <3>3. CASE got = 0 /\ Fails /\ ((legal /\ made) \/ UNCHANGED database)
      <4>1. Service!Answer(j.client, 0, 0, {}, FALSE) /\ Service!Failed
        BY <1>5, <3>3, SameWords
      <4> QED BY <2>1, <2>2, <3>3, <4>1 DEF Service!Send, Service!Change
    <3> QED BY <1>4, <3>1, <3>2, <3>3
  <2> QED BY <1>2, <1>4, <2>3 DEF Completes, Service!Serve
<1> QED BY <1>1, <1>2, <1>4, <1>5, AnswerInJob, Executed

(* Deleting a chat, inviting to it and kicking from it are alike.          *)
LEMMA MembersChanged ==
  ASSUME ServiceInv, NEW t \in Threads, Statement(t), job[t].step \notin Reading,
         NEW k, NEW members, NEW legal \in BOOLEAN,
         ChangeMembers(t, k, legal, members),
         Service!Members(job[t].client, k, legal, members) /\ UNCHANGED userId
           => Completes(t)
  PROVE  Served
<1> DEFINE j == job[t]
           made == chats' = [chats EXCEPT ![k] = members] /\ UNCHANGED <<accounts, messages>>
<1>1. j \in Job /\ Blank(j)
  BY StartsBlank
<1>2. PICK d \in BOOLEAN :
        /\ \/ d = TRUE /\ Clean /\ legal /\ made
           \/ d = FALSE /\ Clean /\ ~ legal /\ UNCHANGED database
           \/ d = FALSE /\ Fails /\ ((legal /\ made) \/ UNCHANGED database)
        /\ UNCHANGED userId
        /\ job' = [job EXCEPT ![t] = [j EXCEPT !.step = "reply", !.done = d]]
  BY DEF ChangeMembers, Outcome, Clean, Fails, identity, database
<1>3. ASSUME Service!Answer(j.client, 0, 0, {}, d)
      PROVE  Service!Members(j.client, k, legal, members)
  <2>1. UNCHANGED database => UNCHANGED Service!data
    BY DEF Service!data, database
  <2>2. CASE d = TRUE /\ Clean /\ legal /\ made
    <3>1. Service!Answer(j.client, 0, 0, {}, TRUE) /\ Service!Sound
      BY <1>3, <2>2, SameWords
    <3> QED BY <2>2, <3>1 DEF Service!Members, Service!Change
  <2>3. CASE d = FALSE /\ Clean /\ ~ legal /\ UNCHANGED database
    <3>1. Service!Answer(j.client, 0, 0, {}, FALSE) /\ Service!Sound
      BY <1>3, <2>3, SameWords
    <3> QED BY <2>1, <2>3, <3>1 DEF Service!Members, Service!Change
  <2>4. CASE d = FALSE /\ Fails /\ ((legal /\ made) \/ UNCHANGED database)
    <3>1. Service!Answer(j.client, 0, 0, {}, FALSE) /\ Service!Failed
      BY <1>3, <2>4, SameWords
    <3> QED BY <2>1, <2>4, <3>1 DEF Service!Members, Service!Change
  <2> QED BY <1>2, <2>2, <2>3, <2>4
<1>4. Service!Answer(j.client, 0, 0, {}, d) => Completes(t)
  BY <1>2, <1>3
<1> QED BY <1>1, <1>2, <1>4, AnswerInJob, Executed

LEMMA MembersServed ==
  ASSUME ServiceInv, NEW t \in Threads,
         DeleteChat(t) \/ InviteToChat(t) \/ KickFromChat(t)
  PROVE  Served
<1> DEFINE q == job[t].query
<1>1. Statement(t) /\ job[t].step \notin Reading
  BY DEF Statement, DeleteChat, InviteToChat, KickFromChat, At, Reading
<1>2. CASE DeleteChat(t)
  <2>1. q.type = "delete"
    BY <1>2 DEF DeleteChat, At, ServiceInv, Serves
  <2>2. PICK legal \in BOOLEAN : legal = (q.chat \in DOMAIN chats /\ chats[q.chat] # {})
    OBVIOUS
  <2>3. ChangeMembers(t, q.chat, legal, {})
    BY <1>2, <2>2 DEF DeleteChat
  <2>4. Service!Members(job[t].client, q.chat, legal, {}) /\ UNCHANGED userId => Completes(t)
    BY <2>1, <2>2 DEF Completes, Service!Serve
  <2> QED BY <1>1, <2>3, <2>4, MembersChanged
<1>3. CASE InviteToChat(t)
  <2>1. q.type = "invite"
    BY <1>3 DEF InviteToChat, At, ServiceInv, Serves
  <2>2. PICK legal \in BOOLEAN : legal = Exists(q.user, q.chat)
    BY DEF Exists
  <2>3. ChangeMembers(t, q.chat, legal, chats[q.chat] \cup {q.user})
    BY <1>3, <2>2 DEF InviteToChat
  <2>4. legal = Service!Present(q.user, q.chat)
    BY <2>2 DEF Exists, Service!Present
  <2>5. Service!Members(job[t].client, q.chat, legal, chats[q.chat] \cup {q.user})
          /\ UNCHANGED userId => Completes(t)
    BY <2>1, <2>4 DEF Completes, Service!Serve
  <2> QED BY <1>1, <2>3, <2>5, MembersChanged
<1>4. CASE KickFromChat(t)
  <2>1. q.type = "kick"
    BY <1>4 DEF KickFromChat, At, ServiceInv, Serves
  <2>2. PICK legal \in BOOLEAN :
          legal = (q.chat \in DOMAIN chats /\ q.user \in chats[q.chat])
    OBVIOUS
  <2>3. ChangeMembers(t, q.chat, legal, chats[q.chat] \ {q.user})
    BY <1>4, <2>2 DEF KickFromChat
  <2>4. legal = (q.chat \in Service!Joined(q.user))
    BY <2>2 DEF Service!Joined
  <2>5. Service!Members(job[t].client, q.chat, legal, chats[q.chat] \ {q.user})
          /\ UNCHANGED userId => Completes(t)
    BY <2>1, <2>4 DEF Completes, Service!Serve
  <2> QED BY <1>1, <2>3, <2>5, MembersChanged
<1> QED BY <1>2, <1>3, <1>4

-----------------------------------------------------------------------------
(* Every step of the server is a step of the abstract specification, or is *)
(* not seen by it.                                                         *)
LEMMA ServiceNext ==
  ServiceInv /\ [Next]_vars => [Service!Next]_(Service!serviceVars)
<1> SUFFICES ASSUME ServiceInv, [Next]_vars
             PROVE  Service!Next \/ UNCHANGED Service!serviceVars
  OBVIOUS
<1>1. ASSUME NEW c \in Connections, Ask(c) PROVE Service!Next
  BY <1>1, ServiceAsks DEF Service!Next
<1>2. ASSUME NEW c \in Connections, ProcessQuery(c)
      PROVE  Service!Next \/ UNCHANGED Service!serviceVars
  BY <1>2, ServiceStarts DEF Service!Next
<1>3. ASSUME NEW t \in Threads, SendResponse(t) PROVE Service!Next
  BY <1>3, ServiceDelivers DEF Service!Next
<1>4. ASSUME NEW t \in Threads, Statement(t) PROVE Served
  <2>1. CASE Syncs(t)
    BY <2>1, SyncServed
  <2>2. CASE ~ Syncs(t) /\ Scans(t)
    <3>1. GetListOfChats(t)
      BY <2>2 DEF Syncs, Scans, HasUnreadMessages, GetUnreadMessages, At,
         ServiceInv, Serves, Reading
    <3> QED BY <2>2, <3>1, ChatsServed
  <2>3. CASE ~ Scans(t)
    BY <1>4, <2>3, VerifyServed, UserIdServed, AvailableServed, RegisterServed,
       UsersServed, CreateServed, SendServed, MembersServed DEF Statement, Scans
  <2> QED BY <2>1, <2>2, <2>3
<1>5. CASE UNCHANGED vars
  <2>1. Pending' = Pending
    BY <1>5, PendingStays DEF vars
  <2> QED BY <1>5, <2>1, ServiceStutter DEF vars, identity
<1>6. ASSUME NEW t \in Threads, Hang(t) PROVE UNCHANGED Service!serviceVars
  <2>1. \A u \in Threads : job[u].step # "reply" /\ job'[u].step # "reply"
    <3>1. TypeOK
      BY DEF ServiceInv, QueryInv, BaseInv
    <3> QED BY <1>6, <3>1, HangStops, OneThread DEF Hang
  <2>2. Pending' = Pending
    BY <2>1, PendingStays
  <2> QED BY <1>6, <2>2, ServiceStutter DEF Hang, identity
<1> QED BY <1>1, <1>2, <1>3, <1>4, <1>5, <1>6 DEF Next, Slot, Served, Service!Next

(* The server implements QueryService: every query is executed as if in    *)
(* one step, all of it or none of it, on the database as it is then, and a *)
(* failing database makes answers say less but never what is not so        *)
(* (client_connection.cpp:108-225).                                        *)
THEOREM ServerImplementsService == Spec => ImplementsService
<1>1. Init => Service!Init
  BY ServiceInit
<1>2. ServiceInv /\ [Next]_vars => [Service!Next]_(Service!serviceVars)
  BY ServiceNext
<1> QED BY <1>1, <1>2, ServiceInvariant, PTL DEF Spec, ImplementsService, Service!Spec
=============================================================================
