-------------------------- MODULE MessageAssembly --------------------------
(***************************************************************************)
(* How the server turns the bytes of its clients into JSON documents       *)
(* (app/src/client_connection.cpp, receiveIncomingMessage and              *)
(* processIncomingMessage).                                                *)
(*                                                                         *)
(* Every ClientConnection is created, and so has its slots run, in the     *)
(* main thread: the slots of different connections interleave but never    *)
(* overlap.  The text assembled so far is a function-static string: ONE    *)
(* string for all the connections.  It is emptied only when the whole of   *)
(* it parses.                                                              *)
(*                                                                         *)
(* Data abstraction.  A message is a flat JSON object of strings and       *)
(* numbers with at least one member, as every client message of the        *)
(* protocol is; a word in quotation marks holds neither quotation marks    *)
(* nor escapes nor JSON punctuation.  The network may cut it in one place, *)
(* into a head and a tail.  To the parser a cut is what the head ends in   *)
(* and what the tail starts with (white space counts with its token),      *)
(* whether the tail is free of quotation marks, and whether the cut        *)
(* splits a character: the keys of the protocol are Cyrillic, two bytes a  *)
(* letter.                                                                 *)
(***************************************************************************)
EXTENDS Naturals, Sequences

CONSTANTS Connections,   \* every connection the server will ever accept
          MaxMessages,   \* bound: how many messages one client writes
          Cuts,          \* the places where the network may cut a message
          Pipelining     \* may a client write before its last message was taken?

(* What one message may end in and go on with where it is cut.             *)
Adjacent == {<<"brace", "member">>,      \* {       | "k":"v"}
             <<"key", "key">>,           \* {"k     | ey":"v"}
             <<"afterKey", "colon">>,    \* {"k"    | :"v"}
             <<"colon", "string">>,      \* {"k":   | "v"}
             <<"colon", "digits">>,      \* {"k":   | 12}
             <<"text", "text">>,         \* {"k":"v | al"}
             <<"number", "digits">>,     \* {"k":1  | 2}
             <<"number", "comma">>,      \* {"k":12 | ,"l":"w"}
             <<"number", "close">>,      \* {"k":12 | }
             <<"value", "comma">>,       \* {"k":"v"  | ,"l":"w"}
             <<"value", "close">>,       \* {"k":"v"  | }
             <<"comma", "member">>}      \* {"k":"v", | "l":"w"}

(* The cuts there are.  A last brace has no quotation mark behind it, nor  *)
(* may the value of a last number member have one; a character is split    *)
(* only inside a word.                                                     *)
AllCuts ==
    {cut \in [ends : {pair[1] : pair \in Adjacent}, starts : {pair[2] : pair \in Adjacent},
              plain : BOOLEAN, splits : BOOLEAN] :
        /\ <<cut.ends, cut.starts>> \in Adjacent
        /\ cut.starts = "close" => cut.plain
        /\ cut.plain => cut.starts \in {"colon", "digits", "close"}
        /\ cut.splits => cut.ends \in {"key", "text"}}

Uncut == [ends |-> "none", starts |-> "none", plain |-> FALSE, splits |-> FALSE]

ASSUME CutsAssumption == Cuts \subseteq AllCuts
ASSUME BoundAssumption == MaxMessages \in Nat
ASSUME PipeliningAssumption == Pipelining \in BOOLEAN

VARIABLES phase,          \* life of each connection
          written,        \* how many messages each client has written
          stream,         \* what each client wrote and readAll() has not taken
          clientMessage,  \* the static string, shared by the connections
          returned        \* the documents given to processQuery, by connection

vars == <<phase, written, stream, clientMessage, returned>>

-----------------------------------------------------------------------------
(* Pieces of messages.                                                     *)

Piece == [owner : Connections, id : Nat \ {0}, cut : AllCuts \cup {Uncut},
          part : {"all", "head", "tail"}, intact : BOOLEAN]

Fragments(c, k, cut) ==
    LET piece(part) == [owner |-> c, id |-> k, cut |-> cut,
                        part |-> part, intact |-> TRUE]
    IN  IF cut = Uncut THEN <<piece("all")>>
                       ELSE <<piece("head"), piece("tail")>>

(* QString::fromUtf8 converts one read by itself: a character whose bytes  *)
(* come in two reads becomes replacement characters on both sides.         *)
FromUtf8(bytes) ==
    [i \in 1 .. Len(bytes) |->
        [bytes[i] EXCEPT !.intact =
            ~ /\ bytes[i].cut.splits
              /\ \/ bytes[i].part = "head" /\ i = Len(bytes)
                 \/ bytes[i].part = "tail" /\ i = 1]]

-----------------------------------------------------------------------------
(* QJsonDocument::fromJson accepts one object and nothing after it.  Tails *)
(* fit any head that ends as their own did, and a "{" may also be closed   *)
(* at once.                                                                *)
Fits(head, tail) ==
    /\ head.part = "head" /\ tail.part = "tail"
    /\ <<head.cut.ends, tail.cut.starts>> \in Adjacent \cup {<<"brace", "close">>}

(* Inside an open word whatever has no quotation mark is just more letters.*)
OpensWord(p) == p.part = "head" /\ p.cut.ends \in {"key", "text"}
Quoteless(p) == \/ p.part = "head" /\ p.cut.ends = "brace"
                \/ p.part = "tail" /\ p.cut.plain

(* A head that ends in a colon takes a whole object for its value, and     *)
(* then any tail that goes on after a value.                               *)
AwaitsValue(p) == p.part = "head" /\ p.cut.ends = "colon"
GoesOn(p)      == p.part = "tail" /\ p.cut.starts \in {"comma", "close"}

(* The object that pieces i to j are, with no other object inside.         *)
IsObject(text, i, j) ==
    \/ i = j /\ text[i].part = "all"
    \/ /\ i < j /\ Fits(text[i], text[j])
       /\ \A m \in i + 1 .. j - 1 : OpensWord(text[i]) /\ Quoteless(text[m])

IsDocument_CountsBraces(text) ==
    /\ text # <<>>
    /\ text[1].part \in {"all", "head"}
    /\ text[Len(text)].part \in {"all", "tail"}
IsDocument_Unchecked(text) == text # <<>>
IsDocument(text) ==
    \E k \in 0 .. Len(text) :
        /\ k < Len(text) - k
        /\ \A i \in 1 .. k : AwaitsValue(text[i])
        /\ IsObject(text, k + 1, Len(text) - k)
        /\ \A i \in Len(text) - k + 1 .. Len(text) : GoesOn(text[i])

(* Texts that some continuation turns into a document: k objects wait for  *)
(* a value, and the innermost object has not begun, is open, or is whole.  *)
CanComplete(text) ==
    \E k \in 0 .. Len(text) :
        /\ \A i \in 1 .. k : AwaitsValue(text[i])
        /\ \/ k = Len(text)
           \/ /\ k < Len(text) /\ text[k + 1].part = "head"
              /\ \A m \in k + 2 .. Len(text) :
                    OpensWord(text[k + 1]) /\ Quoteless(text[m])
           \/ \E j \in k + 1 .. Len(text) :
                /\ IsObject(text, k + 1, j) /\ Len(text) - j <= k
                /\ \A i \in j + 1 .. Len(text) : GoesOn(text[i])

-----------------------------------------------------------------------------
Init ==
    /\ phase = [c \in Connections |-> "absent"]
    /\ written = [c \in Connections |-> 0]
    /\ stream = [c \in Connections |-> <<>>]
    /\ clientMessage = <<>>
    /\ returned = [c \in Connections |-> <<>>]

(* A client is accepted: the ClientConnection exists and its readyRead and *)
(* disconnected signals are connected.                                     *)
Connect(c) ==
    /\ phase[c] = "absent"
    /\ phase' = [phase EXCEPT ![c] = "open"]
    /\ UNCHANGED <<written, stream, clientMessage, returned>>

(* The client writes its next message and the network cuts it somewhere or *)
(* nowhere.  A client that does not pipeline first waits until its last    *)
(* message has been taken for processing.                                  *)
Write(c) ==
    /\ phase[c] = "open"
    /\ written[c] < MaxMessages
    /\ Pipelining \/ Len(returned[c]) = written[c]
    /\ written' = [written EXCEPT ![c] = @ + 1]
    /\ \E cut \in Cuts \cup {Uncut} :
         stream' = [stream EXCEPT ![c] = @ \o Fragments(c, written[c] + 1, cut)]
    /\ UNCHANGED <<phase, clientMessage, returned>>

(* readyRead: readAll() takes everything that has arrived, one piece or    *)
(* several, and the text is tried as one document.                         *)
ProcessIncomingMessage_Rereads(c) ==
    /\ phase[c] = "open"
    /\ \E n \in 1 .. Len(stream[c]) :
         LET text == clientMessage \o FromUtf8(SubSeq(stream[c], 1, n)) IN
         /\ \/ /\ IsDocument(text)
               /\ Len(returned[c]) < MaxMessages
               /\ clientMessage' = <<>>
               /\ returned' = [returned EXCEPT ![c] = Append(@, text)]
               /\ UNCHANGED stream
            \/ /\ ~ IsDocument(text)
               /\ clientMessage' = text
               /\ stream' = [stream EXCEPT ![c] = SubSeq(@, n + 1, Len(@))]
               /\ UNCHANGED returned
    /\ UNCHANGED <<phase, written>>
ProcessIncomingMessage_AlwaysClears(c) ==
    /\ phase[c] = "open"
    /\ \E n \in 1 .. Len(stream[c]) :
         LET text == clientMessage \o FromUtf8(SubSeq(stream[c], 1, n)) IN
         /\ stream' = [stream EXCEPT ![c] = SubSeq(@, n + 1, Len(@))]
         /\ \/ /\ IsDocument(text)
               /\ returned' = [returned EXCEPT ![c] = Append(@, text)]
            \/ ~ IsDocument(text) /\ UNCHANGED returned
         /\ clientMessage' = <<>>
    /\ UNCHANGED <<phase, written>>
ProcessIncomingMessage_StartsOver(c) ==
    /\ phase[c] = "open"
    /\ \E n \in 1 .. Len(stream[c]) :
         LET read == FromUtf8(SubSeq(stream[c], 1, n))
             text == IF IsDocument(read) THEN read ELSE clientMessage \o read
         IN
         /\ stream' = [stream EXCEPT ![c] = SubSeq(@, n + 1, Len(@))]
         /\ \/ /\ IsDocument(text)
               /\ clientMessage' = <<>>
               /\ returned' = [returned EXCEPT ![c] = Append(@, text)]
            \/ /\ ~ IsDocument(text)
               /\ clientMessage' = text
               /\ UNCHANGED returned
    /\ UNCHANGED <<phase, written>>
ProcessIncomingMessage(c) ==
    /\ phase[c] = "open"
    /\ \E n \in 1 .. Len(stream[c]) :
         LET text == clientMessage \o FromUtf8(SubSeq(stream[c], 1, n)) IN
         /\ stream' = [stream EXCEPT ![c] = SubSeq(@, n + 1, Len(@))]
         /\ \/ /\ IsDocument(text)
               /\ clientMessage' = <<>>
               /\ returned' = [returned EXCEPT ![c] = Append(@, text)]
            \/ /\ ~ IsDocument(text)
               /\ clientMessage' = text
               /\ UNCHANGED returned
    /\ UNCHANGED <<phase, written>>

(* The peer goes away: the object is deleted and what it had not read is   *)
(* lost.  Nothing touches the static string.                               *)
Disconnect(c) ==
    /\ phase[c] = "open"
    /\ phase' = [phase EXCEPT ![c] = "gone"]
    /\ stream' = [stream EXCEPT ![c] = <<>>]
    /\ UNCHANGED <<written, clientMessage, returned>>

Next == \E c \in Connections :
    Connect(c) \/ Write(c) \/ ProcessIncomingMessage(c) \/ Disconnect(c)

Spec == Init /\ [][Next]_vars

(* The event loop delivers every readyRead; clients owe the server nothing. *)
Fairness == \A c \in Connections : WF_vars(ProcessIncomingMessage(c))

FairSpec == Spec /\ Fairness

-----------------------------------------------------------------------------
(* Every variable keeps its type; in particular the static string only     *)
(* ever holds pieces that some client wrote.                               *)
TypeOK ==
    /\ phase \in [Connections -> {"absent", "open", "gone"}]
    /\ written \in [Connections -> 0 .. MaxMessages]
    /\ stream \in [Connections -> Seq(Piece)]
    /\ clientMessage \in Seq(Piece)
    /\ returned \in [Connections -> Seq(Seq(Piece))]

(* The message a document answers to: it is the one that ends it.          *)
MessageOf(document) == document[Len(document)].id

(* The messages of one client are processed in the order it wrote them,    *)
(* none of them twice (client_connection.cpp:92, 103).                     *)
InOrder ==
    \A c \in Connections : \A i, j \in DOMAIN returned[c] :
        i < j => MessageOf(returned[c][i]) < MessageOf(returned[c][j])

(* The text given to processQuery is one message of that client, spoilt at *)
(* most where the network split a character.                               *)
OneMessage(c, document) ==
    /\ \A i \in DOMAIN document : /\ document[i].owner = c
                                  /\ document[i].id = MessageOf(document)
                                  /\ document[i].cut.splits \/ document[i].intact
    /\ \/ Len(document) = 1 /\ document[1].part = "all"
       \/ /\ Len(document) = 2
          /\ document[1].part = "head" /\ document[2].part = "tail"

(* It is that message character for character.                             *)
SameText(c, document) ==
    /\ OneMessage(c, document)
    /\ \A i \in DOMAIN document : document[i].intact

(* A head that other clients can complete: it ends at a brace, a comma, a  *)
(* colon or a value, where any tail cut alike goes on.                     *)
Loose(p) == p.cut.ends \in {"brace", "comma", "colon", "number", "value"}

(* A document none of whose pieces was cut at a brace, a comma, a colon or *)
(* a value is one message of its client and of nobody else, spoilt at most *)
(* where a character was split, although the pieces of other clients pass  *)
(* through the same string: those spoil the text or wait for their own     *)
(* other half (client_connection.cpp:91-104).                              *)
ReturnedWhole ==
    \A c \in Connections : \A k \in DOMAIN returned[c] :
        \/ OneMessage(c, returned[c][k])
        \/ \E i \in DOMAIN returned[c][k] : Loose(returned[c][k][i])

(* client_connection.cpp:86: a message is received from the client         *)
(* correctly and as a whole.  A document then holds the words of no other  *)
(* client; a brace of another's is no word.                                *)
OnlyOwnWords ==
    \A c \in Connections : \A k \in DOMAIN returned[c] : \A i \in DOMAIN returned[c][k] :
        LET p == returned[c][k][i] IN
        \/ p.owner = c
        \/ p.part = "head" /\ p.cut.ends = "brace"
        \/ p.part = "tail" /\ p.cut.starts = "close"

(* How many messages of an open connection have been read to the end.      *)
ReadInFull(c) == IF stream[c] = <<>> THEN written[c] ELSE stream[c][1].id - 1

(* client_connection.h:61-64: as soon as a message has been received in    *)
(* full, receiveIncomingMessage returns it.                                *)
ReadMessageIsReturned ==
    \A c \in Connections :
        phase[c] = "open" => Len(returned[c]) = ReadInFull(c)

(* Once the shared string cannot become a document any more, no connection *)
(* ever gets a message processed again, whatever the clients do: nothing   *)
(* but a successful parse empties it (client_connection.cpp:97-103).       *)
DeafnessIsPermanent ==
    [][~ CanComplete(clientMessage) =>
            ~ CanComplete(clientMessage') /\ returned' = returned]_vars

(* Under the conditions of a run the assembly implements the channel that  *)
(* the comment in client_connection.h promises.  What is handed over is a  *)
(* message only if it is the client's own text, character for character.   *)
Handed == [c \in Connections |->
             [k \in 1 .. Len(returned[c]) |->
                IF SameText(c, returned[c][k]) THEN MessageOf(returned[c][k]) ELSE 0]]

Channel == INSTANCE RequestChannel WITH asked <- written, handed <- Handed

ImplementsChannel == Channel!Spec
=============================================================================
