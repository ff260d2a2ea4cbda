------------------------- MODULE MCQueryProcessing -------------------------
(* Model-checking instances of QueryProcessing: two clients of two workers *)
(* and the queries of each run.                                            *)
EXTENDS QueryProcessing

CONSTANTS c1, c2

OnTwoWorkers == [c \in Connections |-> IF c = c1 THEN "w1" ELSE "w2"]

Credentials(type, emails, passwords) ==
    {[type |-> type, email |-> e, password |-> p] : e \in emails, p \in passwords}
On(type, ks) == {[type |-> type, chat |-> k] : k \in ks}
Membership(type, ks, users) ==
    {[type |-> type, chat |-> k, user |-> u] : k \in ks, u \in users}
Plain(types) == {[type |-> x] : x \in types}
Sync(since) == {[type |-> "synchronization", since |-> s] : s \in since}

(* Every query the server knows and one it does not: two addresses, a      *)
(* right and a wrong password, one chat.                                   *)
AllQueries ==
    Credentials("registration", {"a@x", "b@x"}, {"p"})
        \cup Credentials("login", {"a@x"}, {"p", "q"})
        \cup Plain({"users", "chats", "create", "chatMembers"})
        \cup On("send", {1}) \cup On("delete", {1})
        \cup Membership("invite", {1}, {1}) \cup Membership("kick", {1}, {1})
        \cup Sync({0})

(* For liveness and synchronisation: queries of one, of two and of several *)
(* statements, one that is not known, and two chats.                       *)
FewQueries ==
    Credentials("registration", {"a@x"}, {"p"})
        \cup Plain({"create", "chatMembers"}) \cup On("send", {1, 2}) \cup Sync({0})
=============================================================================
