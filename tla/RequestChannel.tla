--------------------------- MODULE RequestChannel ---------------------------
(***************************************************************************)
(* What a client may expect of its connection, before any question of how  *)
(* bytes arrive: the messages it wrote are handed to the query processor   *)
(* whole, one by one, in the order they were written, until the connection *)
(* ends.  client_connection.h:61-64 promises it ("as soon as the message   *)
(* is received in full, returns the received message").                    *)
(***************************************************************************)
EXTENDS Naturals, Sequences

CONSTANTS Connections,   \* every connection the server will ever accept
          MaxMessages    \* how many messages one client writes at most

VARIABLES phase,     \* [Connections -> {"absent", "open", "gone"}]
          asked,     \* how many messages each client has written
          handed     \* the numbers of the messages handed over, in order

channelVars == <<phase, asked, handed>>

Init ==
    /\ phase = [c \in Connections |-> "absent"]
    /\ asked = [c \in Connections |-> 0]
    /\ handed = [c \in Connections |-> <<>>]

Open(c) ==
    /\ phase[c] = "absent"
    /\ phase' = [phase EXCEPT ![c] = "open"]
    /\ UNCHANGED <<asked, handed>>

Ask(c) ==
    /\ phase[c] = "open"
    /\ asked[c] < MaxMessages
    /\ asked' = [asked EXCEPT ![c] = @ + 1]
    /\ UNCHANGED <<phase, handed>>

Hand(c) ==
    /\ phase[c] = "open"
    /\ Len(handed[c]) < asked[c]
    /\ handed' = [handed EXCEPT ![c] = Append(@, Len(@) + 1)]
    /\ UNCHANGED <<phase, asked>>

Close(c) ==
    /\ phase[c] = "open"
    /\ phase' = [phase EXCEPT ![c] = "gone"]
    /\ UNCHANGED <<asked, handed>>

Next == \E c \in Connections : Open(c) \/ Ask(c) \/ Hand(c) \/ Close(c)

(* A message that was written is handed over, unless the client goes away. *)
Fairness == \A c \in Connections : WF_channelVars(Hand(c))

SafetySpec == Init /\ [][Next]_channelVars

Spec == SafetySpec /\ Fairness
=============================================================================
