---------------------------- MODULE CatchUpProofs ----------------------------
(***************************************************************************)
(* Theorems about CatchUp, for any clients and chats, any length of a      *)
(* second and any number of messages.                                      *)
(***************************************************************************)
EXTENDS CatchUp, WellFoundedInduction, TLAPS

-----------------------------------------------------------------------------
(* Whole seconds.                                                          *)

LEMMA WholeSeconds ==
  ASSUME NEW t \in Nat
  PROVE  /\ ToSecsSinceEpoch(t) \in 0 .. t
         /\ ToSecsSinceEpoch(t) * TicksPerSecond <= t
         /\ t < ToSecsSinceEpoch(t) * TicksPerSecond + TicksPerSecond
<1>1. /\ t \div TicksPerSecond \in Nat
      /\ (t \div TicksPerSecond) * TicksPerSecond <= t
      /\ t < (t \div TicksPerSecond) * TicksPerSecond + TicksPerSecond
  BY TicksAssumption
<1>2. t \div TicksPerSecond <= (t \div TicksPerSecond) * TicksPerSecond
  BY <1>1, TicksAssumption
<1>3. QED BY <1>1, <1>2, TicksAssumption DEF ToSecsSinceEpoch

(* What is later than the beginning of a second is of that second or later.*)
LEMMA LaterThanSecond ==
  ASSUME NEW t \in Nat, NEW s \in Int, t > s * TicksPerSecond
  PROVE  ToSecsSinceEpoch(t) >= s
<1> DEFINE d == ToSecsSinceEpoch(t)
<1>1. d \in Nat /\ t < d * TicksPerSecond + TicksPerSecond
  BY WholeSeconds
<1> HIDE DEF d
<1>2. SUFFICES ASSUME d <= s - 1 PROVE FALSE
  BY <1>1 DEF d
<1>3. d * TicksPerSecond <= (s - 1) * TicksPerSecond
  BY <1>1, <1>2, TicksAssumption
<1>4. QED BY <1>1, <1>3, TicksAssumption

(* Max picks the greatest: a bounded set of integers has one.              *)
LEMMA MaxIsGreatest ==
  ASSUME NEW n \in Nat, NEW S \in SUBSET (-1 .. n), S # {}
  PROVE  Max(S) \in S /\ \A x \in S : x <= Max(S)
<1> DEFINE Gaps == {n - x : x \in S}
<1>1. \A x \in S : x \in Int /\ n - x \in Nat
  OBVIOUS
<1>2. Gaps \subseteq Nat
  BY <1>1
<1>3. Gaps # {}
  OBVIOUS
<1>4. PICK g \in Gaps : \A h \in Gaps : ~ (<<h, g>> \in OpToRel(<, Nat))
  <2> HIDE DEF Gaps
  <2> QED BY <1>2, <1>3, NatLessThanWellFounded, WFMin
<1>5. \A h \in Gaps : g <= h
  <2> HIDE DEF Gaps
  <2> SUFFICES ASSUME NEW h \in Gaps, h < g PROVE FALSE
    BY <1>2
  <2>1. h \in Nat /\ g \in Nat
    BY <1>2
  <2>2. <<h, g>> \in OpToRel(<, Nat)
    <3>1. <<h, g>> \in Nat \X Nat
      BY <2>1
    <3>2. <<h, g>>[1] < <<h, g>>[2]
      OBVIOUS
    <3>3. QED BY <3>1, <3>2 DEF OpToRel
  <2>3. QED BY <1>4, <2>2
<1>6. PICK x \in S : g = n - x
  BY <1>4
<1>7. \A y \in S : x >= y
  <2> TAKE y \in S
  <2>1. n - y \in Gaps
    OBVIOUS
  <2>2. n - x <= n - y
    BY <1>5, <1>6, <2>1
  <2> HIDE DEF Gaps
  <2>3. QED BY <1>1, <2>2
<1>8. Max(S) \in S /\ \A y \in S : Max(S) >= y
  BY <1>7 DEF Max
<1> HIDE DEF Gaps
<1>9. QED BY <1>1, <1>8

-----------------------------------------------------------------------------
(* What is newer than the second s, the way the database compares.         *)
Newer(m, s) ==
    IF compare = "exact" THEN m.time > s * TicksPerSecond
                         ELSE m.time \div TicksPerSecond > s

(* A synchronisation works with the second its client still remembers.     *)
SyncIsCurrent ==
    \A c \in Clients : sync[c].running =>
        /\ sync[c].since = since[c]
        /\ \A m \in sync[c].rows : m \in messages /\ Newer(m, since[c])

(* That second is one of a message that was sent, and none of those the    *)
(* client received is later.                                               *)
SinceIsSeen ==
    \A c \in Clients :
        since[c] = -1 \/ \E m \in messages : since[c] = ToSecsSinceEpoch(m.time)
ReceivedIsPast ==
    \A c \in Clients, m \in Message :
        received[c][m] > 0 => ToSecsSinceEpoch(m.time) <= since[c]

(* What is owed was sent to a chat the client is still in.                 *)
OwedIsVisible ==
    \A c \in Clients : \A m \in owed[c] : m \in messages /\ c \in members[m.chat]

(* A synchronisation has read what its client lacks, or is about to, or a  *)
(* statement has failed for its chat.                                      *)
Collected ==
    compare = "exact" =>
        \A c \in Clients : sync[c].running =>
            \A m \in owed[c] : received[c][m] = 0 =>
                \/ m.chat \in sync[c].todo \cup sync[c].failed
                \/ m \in sync[c].rows \/ m \in skipped[c]

CatchUpInv ==
    /\ TypeOK /\ SyncIsCurrent /\ SinceIsSeen /\ ReceivedIsPast
    /\ OwedIsVisible /\ Collected /\ NothingMissed

LEMMA UnreadIsNewer ==
  ASSUME NEW k, NEW s
  PROVE  Unread(k, s) = {m \in messages : m.chat = k /\ Newer(m, s)}
  BY DEF Unread, Newer

LEMMA InitiallyCaughtUp == Init => CatchUpInv
<1> SUFFICES ASSUME Init PROVE CatchUpInv
  OBVIOUS
<1>1. TypeOK
  <2>1. NoSync \in Synchronization
    BY MaxTimeAssumption DEF NoSync, Synchronization
  <2>2. QED
    BY <2>1, MaxTimeAssumption, ChangesAssumption, FailuresAssumption DEF Init, TypeOK
<1>2. SyncIsCurrent /\ Collected
  BY DEF Init, NoSync, SyncIsCurrent, Collected
<1>3. SinceIsSeen /\ ReceivedIsPast /\ OwedIsVisible /\ NothingMissed
  BY DEF Init, SinceIsSeen, ReceivedIsPast, OwedIsVisible, NothingMissed
<1>4. QED BY <1>1, <1>2, <1>3 DEF CatchUpInv

-----------------------------------------------------------------------------
(* A new message is later than every second a client was told.             *)
LEMMA SendMessageKeeps ==
  ASSUME CatchUpInv, NEW c \in Clients, NEW k \in Chats, SendMessage(c, k)
  PROVE  CatchUpInv'
<1>1. /\ TypeOK /\ SyncIsCurrent /\ SinceIsSeen /\ ReceivedIsPast
      /\ OwedIsVisible /\ NothingMissed
  BY DEF CatchUpInv
<1>2. PICK t \in 1 .. MaxTime :
         /\ \A m \in messages : m.time < t
         /\ messages' = messages \cup {[time |-> t, chat |-> k]}
         /\ owed' = [d \in Clients |->
                       IF d \in members[k] THEN owed[d] \cup {[time |-> t, chat |-> k]}
                                           ELSE owed[d]]
  BY DEF SendMessage
<1> DEFINE new == [time |-> t, chat |-> k]
<1>3. new \in Message /\ new.time = t /\ new.chat = k
  BY DEF Message
<1>4. UNCHANGED <<compare, members, since, sync, received, skipped, changes, failures>>
  BY DEF SendMessage, bounds
<1>5. \A d \in Clients : ~ sync[d].running
  BY DEF SendMessage, Free
<1>6. /\ messages' = messages \cup {new}
      /\ \A d \in Clients :
           owed'[d] = IF d \in members[k] THEN owed[d] \cup {new} ELSE owed[d]
  BY <1>2
<1>7. TypeOK'
  BY <1>1, <1>2, <1>3, <1>4 DEF TypeOK
<1>8. SyncIsCurrent' /\ Collected'
  BY <1>4, <1>5 DEF SyncIsCurrent, Collected
<1>9. SinceIsSeen' /\ ReceivedIsPast'
  BY <1>1, <1>4, <1>6 DEF SinceIsSeen, ReceivedIsPast
<1> HIDE DEF new
<1>10. OwedIsVisible'
  <2> SUFFICES ASSUME NEW d \in Clients, NEW m \in owed'[d]
               PROVE  m \in messages' /\ d \in members[m.chat]
    BY <1>4 DEF OwedIsVisible
  <2>1. CASE m = new /\ d \in members[k]
    BY <1>3, <1>6, <2>1
  <2>2. CASE m \in owed[d]
    BY <1>1, <1>6, <2>2 DEF OwedIsVisible
  <2>3. QED BY <1>6, <2>1, <2>2
<1>11. \A d \in Clients : t > since[d] * TicksPerSecond
  <2> TAKE d \in Clients
  <2>1. CASE since[d] = -1
    BY <2>1, TicksAssumption
  <2>2. CASE since[d] # -1
    <3>1. PICK m \in messages : since[d] = ToSecsSinceEpoch(m.time)
      BY <1>1, <2>2 DEF SinceIsSeen
    <3>2. m.time \in Nat /\ m.time < t
      BY <1>1, <1>2 DEF TypeOK, Message
    <3>3. since[d] * TicksPerSecond <= m.time
      BY <3>1, <3>2, WholeSeconds
    <3>4. since[d] * TicksPerSecond \in Int
      BY <1>1, TicksAssumption DEF TypeOK
    <3>5. QED BY <3>2, <3>3, <3>4
  <2>3. QED BY <2>1, <2>2
<1>12. NothingMissed'
  <2> SUFFICES ASSUME compare' = "exact", NEW d \in Clients, NEW m \in owed'[d],
                      received'[d][m] = 0
               PROVE  (m \in messages' /\ Newer(m, since[d])) \/ m \in skipped[d]
    BY <1>4 DEF NothingMissed, Unread, Newer
  <2>1. CASE m = new
    BY <1>3, <1>4, <1>6, <1>11, <2>1 DEF Newer
  <2>2. CASE m \in owed[d]
    <3>1. m \in Unread(m.chat, since[d]) \/ m \in skipped[d]
      BY <1>1, <1>4, <2>2 DEF NothingMissed
    <3>2. QED BY <1>6, <3>1 DEF Unread, Newer
  <2>3. QED BY <1>6, <2>1, <2>2
<1>13. QED BY <1>7, <1>8, <1>9, <1>10, <1>12 DEF CatchUpInv

(* A chat somebody leaves owes them nothing any more.                      *)
LEMMA MembersKeep ==
  ASSUME CatchUpInv, NEW c \in Clients, NEW k \in Chats,
         InviteToChat(c, k) \/ KickFromChat(c, k)
  PROVE  CatchUpInv'
<1>1. /\ TypeOK /\ SyncIsCurrent /\ SinceIsSeen /\ ReceivedIsPast
      /\ OwedIsVisible /\ NothingMissed
  BY DEF CatchUpInv
<1>2. /\ \A d \in Clients : ~ sync[d].running
      /\ UNCHANGED <<compare, messages, since, sync, received, skipped, failures>>
      /\ changes < MaxChanges /\ changes' = changes + 1
  BY DEF InviteToChat, KickFromChat, Free
<1>3. TypeOK' /\ OwedIsVisible' /\ \A d \in Clients : owed'[d] \subseteq owed[d]
  <2>1. changes' \in 0 .. MaxChanges
    BY <1>1, <1>2, ChangesAssumption DEF TypeOK
  <2>2. CASE InviteToChat(c, k)
    <3>1. PICK d \in Clients : members' = [members EXCEPT ![k] = @ \cup {d}]
      BY <2>2 DEF InviteToChat
    <3>2. owed' = owed
      BY <2>2 DEF InviteToChat
    <3>3. TypeOK'
      BY <1>1, <1>2, <2>1, <3>1, <3>2 DEF TypeOK
    <3>4. OwedIsVisible'
      BY <1>1, <1>2, <3>1, <3>2 DEF OwedIsVisible, TypeOK
    <3>5. QED BY <3>2, <3>3, <3>4
  <2>3. CASE KickFromChat(c, k)
    <3>1. PICK d \in members[k] :
            /\ members' = [members EXCEPT ![k] = @ \ {d}]
            /\ owed' = [owed EXCEPT ![d] = {m \in @ : m.chat # k}]
      BY <2>3 DEF KickFromChat
    <3>2. TypeOK'
      BY <1>1, <1>2, <2>1, <3>1 DEF TypeOK
    <3>3. \A e \in Clients :
            owed'[e] = IF e = d THEN {m \in owed[e] : m.chat # k} ELSE owed[e]
      BY <1>1, <3>1 DEF TypeOK
    <3>4. \A j \in Chats :
            members'[j] = IF j = k THEN members[j] \ {d} ELSE members[j]
      BY <1>1, <3>1 DEF TypeOK
    <3>5. OwedIsVisible'
      <4> SUFFICES ASSUME NEW e \in Clients, NEW m \in owed'[e]
                   PROVE  m \in messages' /\ e \in members'[m.chat]
        BY DEF OwedIsVisible
      <4>1. m \in owed[e] /\ (e = d => m.chat # k)
        BY <3>3
      <4>2. m.chat \in Chats
        BY <1>1, <4>1 DEF TypeOK, Message
      <4>3. QED BY <1>1, <1>2, <3>4, <4>1, <4>2 DEF OwedIsVisible
    <3>6. QED BY <3>2, <3>3, <3>5
  <2>4. QED BY <2>2, <2>3
<1>4. SyncIsCurrent' /\ Collected'
  BY <1>2 DEF SyncIsCurrent, Collected
<1>5. SinceIsSeen' /\ ReceivedIsPast'
  BY <1>1, <1>2 DEF SinceIsSeen, ReceivedIsPast
<1>6. NothingMissed'
  BY <1>1, <1>2, <1>3 DEF NothingMissed, Unread
<1>7. QED BY <1>3, <1>4, <1>5, <1>6 DEF CatchUpInv

(* A synchronisation visits every chat that holds something its client     *)
(* lacks, and reads all of it there.                                       *)
LEMMA SyncKeeps ==
  ASSUME CatchUpInv, NEW c \in Clients, Synchronize(c) \/ GetUnreadMessages(c)
  PROVE  CatchUpInv'
<1>1. /\ TypeOK /\ SyncIsCurrent /\ SinceIsSeen /\ ReceivedIsPast
      /\ OwedIsVisible /\ Collected /\ NothingMissed
  BY DEF CatchUpInv
<1>2. UNCHANGED <<compare, members, messages, since, received, owed, skipped, changes>>
  BY DEF Synchronize, GetUnreadMessages
<1>3. SinceIsSeen' /\ ReceivedIsPast' /\ OwedIsVisible' /\ NothingMissed'
  BY <1>1, <1>2 DEF SinceIsSeen, ReceivedIsPast, OwedIsVisible, NothingMissed, Unread
<1>4. failures' \in 0 .. MaxFailures
  <2>1. failures' = failures \/ (failures < MaxFailures /\ failures' = failures + 1)
    BY DEF Synchronize, GetUnreadMessages, Failing
  <2>2. QED BY <1>1, <2>1, FailuresAssumption DEF TypeOK
<1>5. TypeOK' /\ SyncIsCurrent' /\ Collected'
  <2>1. CASE Synchronize(c)
    <3> DEFINE unread == {k \in Chats : c \in members[k] /\ Unread(k, since[c]) # {}}
    <3>1. PICK failed \in SUBSET unread :
            sync' = [sync EXCEPT ![c] =
              [running |-> TRUE, since |-> since[c], rows |-> {}, failed |-> failed,
               todo |-> unread \ failed]]
      BY <2>1 DEF Synchronize
    <3>2. unread \in SUBSET Chats
      OBVIOUS
    <3>3. \A m \in owed[c] : compare = "exact" /\ received[c][m] = 0
                               => m.chat \in unread \/ m \in skipped[c]
      <4> SUFFICES ASSUME NEW m \in owed[c], compare = "exact", received[c][m] = 0,
                          m \notin skipped[c]
                   PROVE  m.chat \in unread
        OBVIOUS
      <4>1. m \in Unread(m.chat, since[c])
        BY <1>1 DEF NothingMissed
      <4>2. m.chat \in Chats /\ c \in members[m.chat]
        BY <1>1 DEF OwedIsVisible, TypeOK, Message
      <4>3. QED BY <4>1, <4>2
    <3> HIDE DEF unread
    <3> DEFINE new == [running |-> TRUE, since |-> since[c], rows |-> {},
                       failed |-> failed, todo |-> unread \ failed]
    <3>4. TypeOK'
      <4>1. new \in Synchronization
        BY <1>1, <3>2 DEF TypeOK, Synchronization
      <4> HIDE DEF new
      <4>2. sync' \in [Clients -> Synchronization]
        BY <1>1, <3>1, <4>1 DEF TypeOK, new
      <4>3. QED BY <1>1, <1>2, <1>4, <4>2 DEF TypeOK
    <3>5. /\ sync'[c] = new
          /\ \A d \in Clients \ {c} : sync'[d] = sync[d]
      BY <1>1, <3>1 DEF TypeOK
    <3>6. SyncIsCurrent'
      BY <1>1, <1>2, <3>5 DEF SyncIsCurrent, Newer
    <3>7. Collected'
      BY <1>1, <1>2, <3>3, <3>5 DEF Collected
    <3>8. QED BY <3>4, <3>6, <3>7
  <2>2. CASE GetUnreadMessages(c)
    <3>1. PICK k \in sync[c].todo : \E failed \in SUBSET {k} :
            sync' = [sync EXCEPT ![c].todo = @ \ {k},
                                 ![c].failed = @ \cup failed,
                                 ![c].rows = @ \cup IF k \in failed THEN {}
                                                      ELSE Unread(k, sync[c].since)]
      BY <2>2 DEF GetUnreadMessages
    <3>2. sync[c].running /\ sync[c].since = since[c]
      BY <1>1, <2>2 DEF GetUnreadMessages, SyncIsCurrent
    <3>3. k \in Chats
      BY <1>1, <3>1 DEF TypeOK, Synchronization
    <3> DEFINE rows == Unread(k, since[c])
    <3>4. rows \subseteq Message
      BY <1>1, UnreadIsNewer DEF TypeOK
    <3>5. PICK failed \in SUBSET {k}, read \in {{}, rows} :
            /\ k \in failed \/ read = rows
            /\ sync' = [sync EXCEPT ![c].todo = @ \ {k}, ![c].failed = @ \cup failed,
                                    ![c].rows = @ \cup read]
      BY <3>1, <3>2
    <3> HIDE DEF rows
    <3> DEFINE new == [sync[c] EXCEPT !.todo = @ \ {k}, !.failed = @ \cup failed,
                                      !.rows = @ \cup read]
    <3>6. sync' = [sync EXCEPT ![c] = new]
      BY <3>5
    <3>7. new \in Synchronization
      <4>1. sync[c] \in Synchronization
        BY <1>1 DEF TypeOK
      <4>2. read \in SUBSET Message /\ failed \in SUBSET Chats
        BY <3>3, <3>4
      <4>3. QED BY <4>1, <4>2 DEF Synchronization
    <3>8. /\ new.running = sync[c].running /\ new.since = sync[c].since
          /\ new.todo = sync[c].todo \ {k} /\ new.failed = sync[c].failed \cup failed
          /\ new.rows = sync[c].rows \cup read
      BY <1>1 DEF TypeOK, Synchronization
    <3> HIDE DEF new
    <3>9. sync' \in [Clients -> Synchronization] /\ sync'[c] = new
          /\ \A d \in Clients \ {c} : sync'[d] = sync[d]
      BY <1>1, <3>6, <3>7 DEF TypeOK
    <3>10. TypeOK'
      BY <1>1, <1>2, <1>4, <3>9 DEF TypeOK
    <3>11. \A m \in read : m \in messages /\ Newer(m, since[c])
      BY <3>5, UnreadIsNewer DEF rows
    <3>12. SyncIsCurrent'
      BY <1>1, <1>2, <3>8, <3>9, <3>11 DEF SyncIsCurrent, Newer
    <3>13. \A m \in owed[c] : compare = "exact" /\ received[c][m] = 0 /\ m.chat = k
                                => m \in rows \/ m \in skipped[c]
      BY <1>1 DEF NothingMissed, rows
    <3>14. Collected'
      <4> SUFFICES ASSUME compare = "exact", NEW d \in Clients, sync'[d].running,
                          NEW m \in owed[d], received[d][m] = 0
                   PROVE  \/ m.chat \in sync'[d].todo \cup sync'[d].failed
                          \/ m \in sync'[d].rows \/ m \in skipped[d]
        BY <1>2 DEF Collected
      <4>1. CASE d # c
        BY <1>1, <3>9, <4>1 DEF Collected
      <4>2. CASE d = c
        <5>1. \/ m.chat \in sync[c].todo \cup sync[c].failed
              \/ m \in sync[c].rows \/ m \in skipped[c]
          BY <1>1, <3>2, <4>2 DEF Collected
        <5>2. QED BY <3>5, <3>8, <3>9, <3>13, <4>2, <5>1
      <4>3. QED BY <4>1, <4>2
    <3>15. QED BY <3>10, <3>12, <3>14
  <2>3. QED BY <2>1, <2>2
<1>6. QED BY <1>3, <1>5 DEF CatchUpInv

(* What an answer leaves behind.                                           *)
LEMMA SendResponseTells ==
  ASSUME CatchUpInv, NEW c \in Clients, SendResponse(c)
  PROVE  /\ since'[c] \in -1 .. MaxTime /\ since[c] <= since'[c]
         /\ \A m \in sync[c].rows : ToSecsSinceEpoch(m.time) <= since'[c]
         /\ \/ since'[c] = since[c]
            \/ \E m \in sync[c].rows : since'[c] = ToSecsSinceEpoch(m.time)
<1>1. TypeOK
  BY DEF CatchUpInv
<1> DEFINE S == {since[c]} \cup {ToSecsSinceEpoch(m.time) : m \in sync[c].rows}
<1>2. since'[c] = Max(S)
  BY <1>1 DEF SendResponse, TypeOK
<1>3. \A m \in sync[c].rows : ToSecsSinceEpoch(m.time) \in 0 .. MaxTime
  <2> TAKE m \in sync[c].rows
  <2>1. m.time \in Nat /\ m.time <= MaxTime
    BY <1>1, MaxTimeAssumption DEF TypeOK, Synchronization, Message
  <2>2. ToSecsSinceEpoch(m.time) \in 0 .. m.time
    BY <2>1, WholeSeconds
  <2>3. QED BY <2>1, <2>2, MaxTimeAssumption
<1>4. S \in SUBSET (-1 .. MaxTime) /\ S # {}
  BY <1>1, <1>3, MaxTimeAssumption DEF TypeOK
<1>5. Max(S) \in S /\ \A x \in S : x <= Max(S)
  <2> HIDE DEF S
  <2>1. QED BY <1>4, MaxIsGreatest, MaxTimeAssumption
<1>6. \A x \in S : x <= since'[c]
  BY <1>2, <1>5
<1>7. since'[c] \in S
  BY <1>2, <1>5
<1>8. QED BY <1>4, <1>6, <1>7

(* An answer brings all its client lacked; then nothing is owed to it.     *)
LEMMA AnswerKeeps ==
  ASSUME CatchUpInv, NEW c \in Clients, SendResponse(c) \/ LoseResponse(c)
  PROVE  CatchUpInv'
<1>1. /\ TypeOK /\ SyncIsCurrent /\ SinceIsSeen /\ ReceivedIsPast
      /\ OwedIsVisible /\ Collected /\ NothingMissed
  BY DEF CatchUpInv
<1>2. UNCHANGED <<compare, members, messages, owed, changes, failures>>
  BY DEF SendResponse, LoseResponse, bounds
<1>3. sync' = [sync EXCEPT ![c] = NoSync]
  BY DEF SendResponse, LoseResponse
<1>4. /\ sync'[c] = NoSync /\ \A d \in Clients \ {c} : sync'[d] = sync[d]
      /\ sync' \in [Clients -> Synchronization]
  <2>1. NoSync \in Synchronization
    BY MaxTimeAssumption DEF NoSync, Synchronization
  <2>2. QED BY <1>1, <1>3, <2>1 DEF TypeOK
<1>5. ~ sync'[c].running
  BY <1>4 DEF NoSync
<1>6. OwedIsVisible'
  BY <1>1, <1>2 DEF OwedIsVisible
<1>7. CASE LoseResponse(c)
  <2>1. UNCHANGED <<since, received, skipped>>
    BY <1>7 DEF LoseResponse
  <2>2. TypeOK'
    BY <1>1, <1>2, <1>4, <2>1 DEF TypeOK
  <2>3. SyncIsCurrent'
    BY <1>1, <1>2, <1>4, <1>5, <2>1 DEF SyncIsCurrent, Newer
  <2>4. SinceIsSeen' /\ ReceivedIsPast' /\ NothingMissed'
    BY <1>1, <1>2, <2>1 DEF SinceIsSeen, ReceivedIsPast, NothingMissed, Unread
  <2>5. Collected'
    BY <1>1, <1>2, <1>4, <1>5, <2>1 DEF Collected
  <2>6. QED BY <1>6, <2>2, <2>3, <2>4, <2>5 DEF CatchUpInv
<1>8. CASE SendResponse(c)
  <2>1. /\ since'[c] \in -1 .. MaxTime /\ since[c] <= since'[c]
        /\ \A m \in sync[c].rows : ToSecsSinceEpoch(m.time) <= since'[c]
        /\ \/ since'[c] = since[c]
           \/ \E m \in sync[c].rows : since'[c] = ToSecsSinceEpoch(m.time)
    BY <1>8, SendResponseTells
  <2>2. sync[c].running /\ sync[c].todo = {}
    BY <1>8 DEF SendResponse
  <2>3. /\ \A d \in Clients \ {c} : since'[d] = since[d] /\ received'[d] = received[d]
        /\ DOMAIN since' = Clients /\ DOMAIN received' = Clients
        /\ since' = [d \in Clients |-> since'[d]]
        /\ received' = [d \in Clients |-> received'[d]]
    BY <1>1, <1>8 DEF SendResponse, TypeOK
  <2>4. received'[c] = [m \in Message |->
          IF m \in sync[c].rows /\ received[c][m] < 2 THEN received[c][m] + 1
                                                      ELSE received[c][m]]
    BY <1>1, <1>8 DEF SendResponse, TypeOK
  <2>5. \A m \in Message :
          /\ received'[c][m] \in 0 .. 2
          /\ received'[c][m] > 0 => received[c][m] > 0 \/ m \in sync[c].rows
          /\ received'[c][m] = 0 => received[c][m] = 0 /\ m \notin sync[c].rows
    BY <1>1, <2>4 DEF TypeOK
  <2>6. /\ skipped' = [skipped EXCEPT ![c] =
               @ \cup {m \in messages : m.chat \in sync[c].failed}]
         /\ skipped' \in [Clients -> SUBSET Message]
         /\ skipped'[c] = skipped[c] \cup {m \in messages : m.chat \in sync[c].failed}
         /\ \A d \in Clients \ {c} : skipped'[d] = skipped[d]
    BY <1>1, <1>8 DEF SendResponse, TypeOK
  <2>7. TypeOK'
    <3>1. received'[c] \in [Message -> 0 .. 2]
      BY <2>4, <2>5
    <3>2. received' \in [Clients -> [Message -> 0 .. 2]]
      BY <1>1, <2>3, <3>1 DEF TypeOK
    <3>3. since' \in [Clients -> -1 .. MaxTime]
      BY <1>1, <2>1, <2>3 DEF TypeOK
    <3>4. QED BY <1>1, <1>2, <1>4, <2>6, <3>2, <3>3 DEF TypeOK
  <2>8. SyncIsCurrent'
    BY <1>1, <1>2, <1>4, <1>5, <2>3 DEF SyncIsCurrent, Newer
  <2>9. SinceIsSeen'
    BY <1>1, <1>2, <2>1, <2>2, <2>3 DEF SinceIsSeen, SyncIsCurrent
  <2>10. ReceivedIsPast'
    <3> SUFFICES ASSUME NEW d \in Clients, NEW m \in Message, received'[d][m] > 0
                 PROVE  ToSecsSinceEpoch(m.time) <= since'[d]
      BY DEF ReceivedIsPast
    <3>1. CASE d # c
      BY <1>1, <2>3, <3>1 DEF ReceivedIsPast
    <3>2. CASE d = c /\ m \in sync[c].rows
      BY <2>1, <3>2
    <3>3. CASE d = c /\ received[c][m] > 0
      <4>1. ToSecsSinceEpoch(m.time) <= since[c]
        BY <1>1, <3>3 DEF ReceivedIsPast
      <4>2. ToSecsSinceEpoch(m.time) \in Int
        BY WholeSeconds, MaxTimeAssumption DEF Message
      <4>3. since[c] \in Int /\ since'[c] \in Int
        BY <1>1, <2>1 DEF TypeOK
      <4>4. QED BY <2>1, <3>3, <4>1, <4>2, <4>3
    <3>4. QED BY <2>5, <3>1, <3>2, <3>3
  <2>11. Collected'
    BY <1>1, <1>2, <1>4, <1>5, <2>3, <2>6 DEF Collected
  <2>12. NothingMissed'
    <3> SUFFICES ASSUME compare' = "exact", NEW d \in Clients, NEW m \in owed'[d],
                        received'[d][m] = 0, m \notin skipped'[d]
                 PROVE  m \in Unread(m.chat, since[d])' /\ d # c
      BY DEF NothingMissed, Unread
    <3>1. m \in owed[d] /\ m \in Message /\ compare = "exact"
      BY <1>1, <1>2 DEF TypeOK
    <3>2. d # c
      <4> SUFFICES ASSUME d = c PROVE FALSE
        OBVIOUS
      <4>1. received[c][m] = 0 /\ m \notin sync[c].rows
        BY <2>5, <3>1
      <4>2. m \notin skipped[c] /\ m.chat \notin sync[c].failed
        <5>1. m \in messages
          BY <1>1, <3>1 DEF OwedIsVisible
        <5>2. QED BY <2>6, <5>1
      <4>3. QED BY <1>1, <2>2, <3>1, <4>1, <4>2 DEF Collected
    <3>3. m \in Unread(m.chat, since[d])
      BY <1>1, <2>3, <2>6, <3>1, <3>2 DEF NothingMissed
    <3>4. QED BY <1>2, <2>3, <3>2, <3>3 DEF Unread
  <2>13. QED BY <1>6, <2>7, <2>8, <2>9, <2>10, <2>11, <2>12 DEF CatchUpInv
<1>9. QED BY <1>7, <1>8

-----------------------------------------------------------------------------
(* The inductive invariant of repeated synchronisation: what a client      *)
(* lacks is newer than the second it remembers or was left out when a      *)
(* statement failed, and a synchronisation that runs has it, will still    *)
(* read it, or leaves its chat out.                                        *)
THEOREM CatchUpInvariant == Spec => []CatchUpInv
<1>1. CatchUpInv /\ [Next]_vars => CatchUpInv'
  <2> SUFFICES ASSUME CatchUpInv, [Next]_vars PROVE CatchUpInv'
    OBVIOUS
  <2>1. CASE Next
    BY <2>1, SendMessageKeeps, MembersKeep, SyncKeeps, AnswerKeeps DEF Next
  <2>2. CASE UNCHANGED vars
    BY <2>2 DEF vars, bounds, CatchUpInv, TypeOK, SyncIsCurrent, SinceIsSeen, ReceivedIsPast,
                OwedIsVisible, Collected, NothingMissed, Newer, Unread
  <2>3. QED BY <2>1, <2>2
<1>2. QED BY <1>1, InitiallyCaughtUp, PTL DEF Spec

(* Every variable of CatchUp has its type; in particular the second a      *)
(* client is told is one of the clock's.                                   *)
THEOREM CatchUpTypeCorrect == Spec => []TypeOK
<1>1. CatchUpInv => TypeOK
  BY DEF CatchUpInv
<1>2. QED BY <1>1, CatchUpInvariant, PTL

(* If the database compares time stamps, a client that remembers only the  *)
(* last second it was told passes no message over but those of chats that  *)
(* an answer left out because a statement had failed.                      *)
THEOREM NoneIsMissed == Spec => []NothingMissed
<1>1. CatchUpInv => NothingMissed
  BY DEF CatchUpInv
<1>2. QED BY <1>1, CatchUpInvariant, PTL

(* Only messages of the last second are received twice, and only if the    *)
(* database compares time stamps.                                          *)
THEOREM OnlyTheLastSecondRepeats == Spec => RepeatsAreOfTheLastSecond
<1> DEFINE Repeats ==
      \A c \in Clients, m \in Message :
          received[c][m] > 0 /\ received'[c][m] > received[c][m] =>
              compare = "exact" /\ ToSecsSinceEpoch(m.time) = since[c]
<1>1. CatchUpInv /\ [Next]_vars => [Repeats]_vars
  <2> SUFFICES ASSUME CatchUpInv, Next, NEW c \in Clients, NEW m \in Message,
                      received[c][m] > 0, received'[c][m] > received[c][m]
               PROVE  compare = "exact" /\ ToSecsSinceEpoch(m.time) = since[c]
    OBVIOUS
  <2>1. TypeOK /\ SyncIsCurrent /\ ReceivedIsPast
    BY DEF CatchUpInv
  <2>2. received[c][m] \in 0 .. 2
    BY <2>1 DEF TypeOK
  <2>3. received' # received
    BY <2>2
  <2>4. PICK d \in Clients : SendResponse(d)
    BY <2>3 DEF Next, SendMessage, InviteToChat, KickFromChat, Synchronize,
                GetUnreadMessages, LoseResponse
  <2>5. c = d /\ m \in sync[c].rows
    BY <2>1, <2>2, <2>4 DEF SendResponse, TypeOK
  <2>6. Newer(m, since[c])
    BY <2>1, <2>4, <2>5 DEF SyncIsCurrent, SendResponse
  <2>7. ToSecsSinceEpoch(m.time) <= since[c]
    BY <2>1 DEF ReceivedIsPast
  <2>8. m.time \in Nat /\ since[c] \in Int /\ ToSecsSinceEpoch(m.time) \in Int
    BY <2>1, WholeSeconds, MaxTimeAssumption DEF TypeOK, Message
  <2>9. compare = "exact"
    BY <2>6, <2>7, <2>8 DEF Newer, ToSecsSinceEpoch
  <2>10. ToSecsSinceEpoch(m.time) >= since[c]
    BY <2>6, <2>8, <2>9, LaterThanSecond DEF Newer
  <2>11. QED BY <2>7, <2>8, <2>9, <2>10
<1>2. QED BY <1>1, CatchUpInvariant, PTL DEF Spec, RepeatsAreOfTheLastSecond
=============================================================================
