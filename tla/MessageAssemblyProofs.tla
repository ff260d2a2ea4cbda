----------------------- MODULE MessageAssemblyProofs -----------------------
(***************************************************************************)
(* Theorems about MessageAssembly, for any number of connections and       *)
(* messages, any cuts, pipelining or not.  Two theorems need clients that  *)
(* take turns, and say so.                                                 *)
(***************************************************************************)
EXTENDS MessageAssembly, SequenceTheorems, TLAPS

-----------------------------------------------------------------------------
(* Leaving a message whole is no cut.                                      *)
LEMMA UncutIsNoCut == Uncut \notin AllCuts
<1>1. \A pair \in Adjacent : pair[1] # "none"
  BY DEF Adjacent
<1>2. QED BY <1>1 DEF Uncut, AllCuts

(* FromUtf8 may spoil the first or the last piece of a read, but only one  *)
(* cut inside a character; it never changes whose piece it is nor its      *)
(* place in the message.                                                   *)
LEMMA Utf8Keeps ==
  ASSUME NEW s \in Seq(Piece)
  PROVE  /\ FromUtf8(s) \in Seq(Piece)
         /\ Len(FromUtf8(s)) = Len(s)
         /\ \A i \in 1 .. Len(s) : /\ FromUtf8(s)[i].owner = s[i].owner
                                   /\ FromUtf8(s)[i].id = s[i].id
                                   /\ FromUtf8(s)[i].cut = s[i].cut
                                   /\ FromUtf8(s)[i].part = s[i].part
                                   /\ ~ s[i].cut.splits => FromUtf8(s)[i].intact
<1> DEFINE spoiled(i) ==
             ~ /\ s[i].cut.splits
               /\ \/ s[i].part = "head" /\ i = Len(s)
                  \/ s[i].part = "tail" /\ i = 1
           piece(i) == [s[i] EXCEPT !.intact = spoiled(i)]
<1>1. Len(s) \in Nat /\ \A i \in 1 .. Len(s) : s[i] \in Piece
  BY LenProperties, ElementOfSeq
<1>2. \A i \in 1 .. Len(s) : spoiled(i) \in BOOLEAN
  OBVIOUS
<1>3. ASSUME NEW i \in 1 .. Len(s)
      PROVE  /\ piece(i) \in Piece
             /\ piece(i).owner = s[i].owner /\ piece(i).id = s[i].id
             /\ piece(i).cut = s[i].cut /\ piece(i).part = s[i].part
             /\ ~ s[i].cut.splits => piece(i).intact
  <2>1. s[i] \in Piece /\ spoiled(i) \in BOOLEAN
    BY <1>1, <1>2
  <2>2. ~ s[i].cut.splits => spoiled(i)
    OBVIOUS
  <2> HIDE DEF spoiled
  <2>3. QED BY <2>1, <2>2 DEF Piece
<1>4. FromUtf8(s) = [i \in 1 .. Len(s) |-> piece(i)]
  BY DEF FromUtf8
<1> HIDE DEF piece
<1>5. FromUtf8(s) \in [1 .. Len(s) -> Piece]
  BY <1>3, <1>4
<1>6. FromUtf8(s) \in Seq(Piece) /\ Len(FromUtf8(s)) = Len(s)
  BY <1>1, <1>5
<1>7. QED BY <1>3, <1>4, <1>6

(* The text parsed by a read of n pieces of s: the shared string m followed *)
(* by what was read.                                                       *)
ReadOnto(text, m, s, n) ==
    /\ text \in Seq(Piece)
    /\ Len(text) = Len(m) + n
    /\ \A i \in 1 .. Len(m) : text[i] = m[i]
    /\ \A i \in 1 .. n : /\ text[Len(m) + i].owner = s[i].owner
                         /\ text[Len(m) + i].id = s[i].id
                         /\ text[Len(m) + i].cut = s[i].cut
                         /\ text[Len(m) + i].part = s[i].part
                         /\ ~ s[i].cut.splits => text[Len(m) + i].intact

(* readAll(), fromUtf8() and += add the pieces read to the shared string.  *)
LEMMA TextOfRead ==
  ASSUME NEW m \in Seq(Piece), NEW s \in Seq(Piece), NEW n \in 1 .. Len(s)
  PROVE  ReadOnto(m \o FromUtf8(SubSeq(s, 1, n)), m, s, n)
<1> DEFINE read == SubSeq(s, 1, n)
           got == FromUtf8(read)
<1>1. Len(s) \in Nat /\ Len(m) \in Nat /\ \A i \in 1 .. Len(s) : s[i] \in Piece
  BY LenProperties, ElementOfSeq
<1>2. /\ read \in Seq(Piece)
      /\ Len(read) = n
      /\ \A i \in 1 .. n : read[i] = s[i]
  BY <1>1, SubSeqProperties
<1> HIDE DEF read
<1>3. /\ got \in Seq(Piece)
      /\ Len(got) = n
      /\ \A i \in 1 .. n : /\ got[i].owner = s[i].owner
                           /\ got[i].id = s[i].id
                           /\ got[i].cut = s[i].cut
                           /\ got[i].part = s[i].part
                           /\ ~ s[i].cut.splits => got[i].intact
  <2>1. /\ got \in Seq(Piece)
        /\ Len(got) = Len(read)
        /\ \A i \in 1 .. Len(read) : /\ got[i].owner = read[i].owner
                                     /\ got[i].id = read[i].id
                                     /\ got[i].cut = read[i].cut
                                     /\ got[i].part = read[i].part
                                     /\ ~ read[i].cut.splits => got[i].intact
    BY <1>2, Utf8Keeps
  <2> HIDE DEF got
  <2>2. QED BY <1>2, <2>1
<1> HIDE DEF got
<1>4. /\ m \o got \in Seq(Piece)
      /\ Len(m \o got) = Len(m) + n
      /\ \A i \in 1 .. Len(m) : (m \o got)[i] = m[i]
      /\ \A i \in 1 .. n : (m \o got)[Len(m) + i] = got[i]
  <2>1. m \in Seq(Piece) /\ got \in Seq(Piece) /\ Len(got) = n
    BY <1>3
  <2> HIDE DEF Piece
  <2>2. m \o got \in Seq(Piece) /\ Len(m \o got) = Len(m) + Len(got)
    BY <2>1, ConcatProperties
  <2>3. \A i \in 1 .. Len(m) + Len(got) :
          (m \o got)[i] = IF i <= Len(m) THEN m[i] ELSE got[i - Len(m)]
    BY <2>1, ConcatProperties
  <2>4. ASSUME NEW i \in 1 .. n PROVE (m \o got)[Len(m) + i] = got[i]
    <3>1. /\ Len(m) + i \in 1 .. Len(m) + Len(got)
          /\ ~ Len(m) + i <= Len(m) /\ (Len(m) + i) - Len(m) = i
      BY <1>1, <2>1
    <3>2. QED BY <2>3, <3>1
  <2>5. ASSUME NEW i \in 1 .. Len(m) PROVE (m \o got)[i] = m[i]
    <3>1. i \in 1 .. Len(m) + Len(got) /\ i <= Len(m)
      BY <1>1, <2>1
    <3>2. QED BY <2>3, <3>1
  <2>6. QED BY <2>1, <2>2, <2>4, <2>5
<1>5. QED BY <1>3, <1>4 DEF got, read, ReadOnto

(* What the readyRead slot does, whatever it reads.                        *)
LEMMA ReadStep ==
  ASSUME TypeOK, NEW c \in Connections, ProcessIncomingMessage(c)
  PROVE  \E n \in 1 .. Len(stream[c]), text \in Seq(Piece), rest \in Seq(Piece) :
           /\ text = clientMessage \o FromUtf8(SubSeq(stream[c], 1, n))
           /\ ReadOnto(text, clientMessage, stream[c], n)
           /\ rest = SubSeq(stream[c], n + 1, Len(stream[c]))
           /\ Len(rest) = Len(stream[c]) - n
           /\ \A i \in 1 .. Len(rest) : rest[i] = stream[c][n + i]
           /\ stream'[c] = rest
           /\ \A d \in Connections : d # c => /\ stream'[d] = stream[d]
                                              /\ returned'[d] = returned[d]
           /\ \/ /\ IsDocument(text)
                 /\ clientMessage' = <<>>
                 /\ returned'[c] = Append(returned[c], text)
              \/ /\ ~ IsDocument(text)
                 /\ clientMessage' = text
                 /\ returned' = returned
<1> DEFINE text(n) == clientMessage \o FromUtf8(SubSeq(stream[c], 1, n))
           rest(n) == SubSeq(stream[c], n + 1, Len(stream[c]))
<1>1. /\ stream \in [Connections -> Seq(Piece)] /\ stream[c] \in Seq(Piece)
      /\ clientMessage \in Seq(Piece) /\ Len(stream[c]) \in Nat
      /\ returned \in [Connections -> Seq(Seq(Piece))]
      /\ \A i \in 1 .. Len(stream[c]) : stream[c][i] \in Piece
  BY LenProperties, ElementOfSeq DEF TypeOK
<1>2. PICK n \in 1 .. Len(stream[c]) :
        /\ stream' = [stream EXCEPT ![c] = rest(n)]
        /\ \/ /\ IsDocument(text(n))
              /\ clientMessage' = <<>>
              /\ returned' = [returned EXCEPT ![c] = Append(@, text(n))]
           \/ /\ ~ IsDocument(text(n))
              /\ clientMessage' = text(n)
              /\ UNCHANGED returned
  BY DEF ProcessIncomingMessage
<1>3. ReadOnto(text(n), clientMessage, stream[c], n)
  BY <1>1, TextOfRead
<1>4. /\ rest(n) \in Seq(Piece)
      /\ Len(rest(n)) = Len(stream[c]) - n
      /\ \A i \in 1 .. Len(stream[c]) - n : rest(n)[i] = stream[c][n + i]
  BY <1>1, SubSeqProperties
<1>5. text(n) \in Seq(Piece)
  BY <1>3 DEF ReadOnto
<1> DEFINE t == text(n)
           r == rest(n)
<1>6. /\ t = text(n) /\ r = rest(n)
  OBVIOUS
<1> HIDE DEF text, rest, t, r
<1>7. /\ stream'[c] = r
      /\ \A d \in Connections : d # c => /\ stream'[d] = stream[d]
                                         /\ returned'[d] = returned[d]
      /\ \/ /\ IsDocument(t)
            /\ clientMessage' = <<>>
            /\ returned'[c] = Append(returned[c], t)
         \/ /\ ~ IsDocument(t)
            /\ clientMessage' = t
            /\ returned' = returned
  BY <1>1, <1>2, <1>6
<1>8. /\ t \in Seq(Piece) /\ r \in Seq(Piece)
      /\ ReadOnto(t, clientMessage, stream[c], n)
      /\ Len(r) = Len(stream[c]) - n
      /\ \A i \in 1 .. Len(r) : r[i] = stream[c][n + i]
  BY <1>3, <1>4, <1>5, <1>6
<1>9. /\ t = clientMessage \o FromUtf8(SubSeq(stream[c], 1, n))
      /\ r = SubSeq(stream[c], n + 1, Len(stream[c]))
  BY DEF t, r, text, rest
<1>10. QED BY <1>7, <1>8, <1>9, Zenon

(* What a client writes: one whole piece, or a head followed by its tail.  *)
LEMMA FragmentsShape ==
  ASSUME NEW c \in Connections, NEW k \in Nat \ {0},
         NEW cut \in AllCuts \cup {Uncut}
  PROVE  /\ Fragments(c, k, cut) \in Seq(Piece)
         /\ Len(Fragments(c, k, cut)) \in {1, 2}
         /\ Len(Fragments(c, k, cut)) = IF cut = Uncut THEN 1 ELSE 2
         /\ \A i \in 1 .. Len(Fragments(c, k, cut)) :
              /\ Fragments(c, k, cut)[i].owner = c
              /\ Fragments(c, k, cut)[i].id = k
              /\ Fragments(c, k, cut)[i].cut = cut
         /\ Len(Fragments(c, k, cut)) = 1 => Fragments(c, k, cut)[1].part = "all"
         /\ Len(Fragments(c, k, cut)) = 2 =>
              /\ Fragments(c, k, cut)[1].part = "head"
              /\ Fragments(c, k, cut)[2].part = "tail"
<1> DEFINE piece(part) == [owner |-> c, id |-> k, cut |-> cut,
                           part |-> part, intact |-> TRUE]
<1>1. /\ piece("all") \in Piece
      /\ piece("head") \in Piece
      /\ piece("tail") \in Piece
  BY DEF Piece
<1>2. \A part \in {"all", "head", "tail"} :
        /\ piece(part).owner = c /\ piece(part).id = k
        /\ piece(part).cut = cut /\ piece(part).part = part
  OBVIOUS
<1> DEFINE new == Fragments(c, k, cut)
<1>3. CASE cut = Uncut
  <2>1. new = <<piece("all")>>
    BY <1>3 DEF Fragments
  <2> HIDE DEF piece, new
  <2>2. new \in Seq(Piece) /\ Len(new) = 1 /\ new[1] = piece("all")
    BY <1>1, <2>1
  <2>3. \A i \in 1 .. Len(new) : new[i] = piece("all")
    BY <2>2
  <2>4. QED BY <1>2, <1>3, <2>2, <2>3 DEF new
<1>4. CASE cut # Uncut
  <2>1. new = <<piece("head"), piece("tail")>>
    BY <1>4 DEF Fragments
  <2> HIDE DEF piece, new
  <2>2. /\ new \in Seq(Piece) /\ Len(new) = 2
        /\ new[1] = piece("head") /\ new[2] = piece("tail")
    BY <1>1, <2>1
  <2>3. \A i \in 1 .. Len(new) : new[i] = piece("head") \/ new[i] = piece("tail")
    BY <2>2
  <2>4. QED BY <1>2, <1>4, <2>2, <2>3 DEF new
<1>5. QED BY <1>3, <1>4

-----------------------------------------------------------------------------
(* Every variable has its type, whatever the network cuts.                 *)
LEMMA TypeCorrect == Spec => []TypeOK
<1>1. Init => TypeOK
  BY BoundAssumption DEF Init, TypeOK
<1>2. TypeOK /\ [Next]_vars => TypeOK'
  <2> SUFFICES ASSUME TypeOK, [Next]_vars PROVE TypeOK'
    OBVIOUS
  <2>1. ASSUME NEW c \in Connections, Connect(c) PROVE TypeOK'
    BY <2>1 DEF Connect, TypeOK
  <2>2. ASSUME NEW c \in Connections, Write(c) PROVE TypeOK'
    <3>1. PICK cut \in Cuts \cup {Uncut} :
            stream' = [stream EXCEPT ![c] = @ \o Fragments(c, written[c] + 1, cut)]
      BY <2>2 DEF Write
    <3>2. written[c] \in 0 .. MaxMessages /\ written[c] < MaxMessages
      BY <2>2 DEF Write, TypeOK
    <3>3. Fragments(c, written[c] + 1, cut) \in Seq(Piece)
      <4>1. cut \in AllCuts \cup {Uncut}
        BY CutsAssumption
      <4>2. written[c] + 1 \in Nat \ {0}
        BY <3>2, BoundAssumption
      <4>3. QED BY <4>1, <4>2, FragmentsShape
    <3>4. stream' \in [Connections -> Seq(Piece)]
      BY <3>1, <3>3 DEF TypeOK
    <3>5. written' \in [Connections -> 0 .. MaxMessages]
      BY <2>2, <3>2, BoundAssumption DEF Write, TypeOK
    <3>6. QED BY <2>2, <3>4, <3>5 DEF Write, TypeOK
  <2>3. ASSUME NEW c \in Connections, ProcessIncomingMessage(c) PROVE TypeOK'
    <3> DEFINE text(n) == clientMessage \o FromUtf8(SubSeq(stream[c], 1, n))
    <3>1. PICK n \in 1 .. Len(stream[c]) :
            /\ stream' = [stream EXCEPT ![c] = SubSeq(@, n + 1, Len(@))]
            /\ \/ /\ clientMessage' = <<>>
                  /\ returned' = [returned EXCEPT ![c] = Append(@, text(n))]
               \/ /\ clientMessage' = text(n)
                  /\ UNCHANGED returned
      BY <2>3 DEF ProcessIncomingMessage
    <3>2. stream[c] \in Seq(Piece) /\ clientMessage \in Seq(Piece)
      BY DEF TypeOK
    <3>3. text(n) \in Seq(Piece)
      BY <3>2, TextOfRead DEF ReadOnto
    <3>4. SubSeq(stream[c], n + 1, Len(stream[c])) \in Seq(Piece)
      BY <3>2
    <3> HIDE DEF text
    <3>5. stream' \in [Connections -> Seq(Piece)]
      BY <3>1, <3>4 DEF TypeOK
    <3>6. clientMessage' \in Seq(Piece)
      <4>1. <<>> \in Seq(Piece)
        OBVIOUS
      <4>2. QED BY <3>1, <3>3, <4>1
    <3>7. returned' \in [Connections -> Seq(Seq(Piece))]
      <4>1. Append(returned[c], text(n)) \in Seq(Seq(Piece))
        BY <3>3, AppendProperties DEF TypeOK
      <4>2. QED BY <3>1, <4>1 DEF TypeOK
    <3>8. QED BY <2>3, <3>5, <3>6, <3>7 DEF ProcessIncomingMessage, TypeOK
  <2>4. ASSUME NEW c \in Connections, Disconnect(c) PROVE TypeOK'
    BY <2>4 DEF Disconnect, TypeOK
  <2>5. CASE UNCHANGED vars
    BY <2>5 DEF vars, TypeOK
  <2>6. QED BY <2>1, <2>2, <2>3, <2>4, <2>5 DEF Next
<1>3. QED BY <1>1, <1>2, PTL DEF Spec

-----------------------------------------------------------------------------
(* What can become a document could become one before its last pieces came. *)
LEMMA BeginningCompletes ==
  ASSUME NEW text \in Seq(Piece), NEW m \in Seq(Piece), Len(m) <= Len(text),
         \A i \in 1 .. Len(m) : text[i] = m[i],
         CanComplete(text)
  PROVE  CanComplete(m)
<1> DEFINE n == Len(text)
           l == Len(m)
<1>1. n \in Nat /\ l \in Nat /\ l <= n
  BY LenProperties
<1>2. PICK k \in 0 .. n :
        /\ \A i \in 1 .. k : AwaitsValue(text[i])
        /\ \/ k = n
           \/ /\ k < n /\ text[k + 1].part = "head"
              /\ \A i \in k + 2 .. n : OpensWord(text[k + 1]) /\ Quoteless(text[i])
           \/ \E j \in k + 1 .. n : /\ IsObject(text, k + 1, j) /\ n - j <= k
                                    /\ \A i \in j + 1 .. n : GoesOn(text[i])
  BY DEF CanComplete
<1>3. CASE l <= k
  <2>1. l \in 0 .. l /\ \A i \in 1 .. l : AwaitsValue(m[i])
    BY <1>1, <1>2, <1>3
  <2>2. QED BY <2>1 DEF CanComplete
<1>4. CASE k < l
  <2>1. k \in 0 .. l /\ \A i \in 1 .. k : AwaitsValue(m[i])
    BY <1>1, <1>2, <1>4
  <2>2. ASSUME text[k + 1].part = "head",
               \A i \in k + 2 .. l : OpensWord(text[k + 1]) /\ Quoteless(text[i])
        PROVE  CanComplete(m)
    <3>1. k + 1 \in 1 .. l /\ \A i \in k + 2 .. l : i \in 1 .. l
      BY <1>1, <1>4
    <3>2. /\ m[k + 1].part = "head"
          /\ \A i \in k + 2 .. l : OpensWord(m[k + 1]) /\ Quoteless(m[i])
      BY <2>2, <3>1
    <3>3. QED BY <1>4, <2>1, <3>2 DEF CanComplete
  <2>3. CASE k < n /\ text[k + 1].part = "head"
             /\ \A i \in k + 2 .. n : OpensWord(text[k + 1]) /\ Quoteless(text[i])
    BY <1>1, <2>2, <2>3
  <2>4. ASSUME NEW j \in k + 1 .. n, IsObject(text, k + 1, j), n - j <= k,
               \A i \in j + 1 .. n : GoesOn(text[i])
        PROVE  CanComplete(m)
    <3>1. CASE j <= l
      <4>1. j \in k + 1 .. l /\ l - j <= k
        BY <1>1, <2>4, <3>1
      <4>2. \A i \in k + 1 .. l : text[i] = m[i]
        BY <1>1
      <4>3. IsObject(m, k + 1, j)
        <5>1. /\ k + 1 \in k + 1 .. l
              /\ \A i \in k + 1 + 1 .. j - 1 : i \in k + 1 .. l
          BY <1>1, <1>4, <4>1
        <5>2. /\ text[k + 1] = m[k + 1] /\ text[j] = m[j]
              /\ \A i \in k + 1 + 1 .. j - 1 : text[i] = m[i]
          BY <4>1, <4>2, <5>1
        <5>3. QED BY <2>4, <5>2 DEF IsObject
      <4>4. \A i \in j + 1 .. l : GoesOn(m[i])
        <5>1. \A i \in j + 1 .. l : i \in k + 1 .. l /\ i \in j + 1 .. n
          BY <1>1, <4>1
        <5>2. QED BY <2>4, <4>2, <5>1
      <4>5. QED BY <2>1, <4>1, <4>3, <4>4 DEF CanComplete
    <3>2. CASE l < j
      <4>1. /\ k + 1 # j
            /\ \A i \in k + 2 .. l : i \in k + 1 + 1 .. j - 1
        BY <1>1, <1>4, <3>2
      <4>2. QED BY <2>2, <2>4, <4>1 DEF IsObject, Fits
    <3>3. QED BY <1>1, <3>1, <3>2
  <2>5. QED BY <1>1, <1>2, <1>4, <2>3, <2>4
<1>5. QED BY <1>1, <1>3, <1>4

(* A document can become one.                                              *)
LEMMA DocumentCompletes ==
  ASSUME NEW text \in Seq(Piece), IsDocument(text)
  PROVE  CanComplete(text)
<1>1. PICK k \in 0 .. Len(text) :
        /\ k < Len(text) - k
        /\ \A i \in 1 .. k : AwaitsValue(text[i])
        /\ IsObject(text, k + 1, Len(text) - k)
        /\ \A i \in Len(text) - k + 1 .. Len(text) : GoesOn(text[i])
  BY DEF IsDocument
<1> DEFINE j == Len(text) - k
<1>2. j \in k + 1 .. Len(text) /\ Len(text) - j <= k
  BY <1>1, LenProperties
<1>3. IsObject(text, k + 1, j) /\ \A i \in j + 1 .. Len(text) : GoesOn(text[i])
  BY <1>1
<1> HIDE DEF j
<1>4. QED BY <1>1, <1>2, <1>3 DEF CanComplete

(* A text no continuation can repair stays so, and is no document, however *)
(* it is continued.                                                        *)
LEMMA NoRepair ==
  ASSUME NEW m \in Seq(Piece), NEW s \in Seq(Piece), NEW n \in 1 .. Len(s),
         NEW text, ReadOnto(text, m, s, n),
         ~ CanComplete(m)
  PROVE  ~ CanComplete(text) /\ ~ IsDocument(text)
<1>1. /\ text \in Seq(Piece) /\ Len(m) <= Len(text)
      /\ \A i \in 1 .. Len(m) : text[i] = m[i]
  BY LenProperties DEF ReadOnto
<1>2. QED BY <1>1, BeginningCompletes, DocumentCompletes

(* Deafness is permanent: once the shared string is beyond repair, no      *)
(* query of any client is processed any more (client_connection.cpp:97-103 *)
(* empties it only after a successful parse).                              *)
THEOREM DeafForever == Spec => DeafnessIsPermanent
<1>1. TypeOK /\ [Next]_vars =>
        [~ CanComplete(clientMessage) =>
            ~ CanComplete(clientMessage') /\ returned' = returned]_vars
  <2> SUFFICES ASSUME TypeOK, Next, ~ CanComplete(clientMessage)
               PROVE  ~ CanComplete(clientMessage') /\ returned' = returned
    OBVIOUS
  <2>1. PICK c \in Connections :
          Connect(c) \/ Write(c) \/ ProcessIncomingMessage(c) \/ Disconnect(c)
    BY DEF Next
  <2>2. CASE Connect(c) \/ Write(c) \/ Disconnect(c)
    BY <2>2 DEF Connect, Write, Disconnect
  <2>3. CASE ProcessIncomingMessage(c)
    <3> DEFINE text(n) == clientMessage \o FromUtf8(SubSeq(stream[c], 1, n))
    <3>1. PICK n \in 1 .. Len(stream[c]) :
            \/ IsDocument(text(n))
            \/ clientMessage' = text(n) /\ UNCHANGED returned
      BY <2>3 DEF ProcessIncomingMessage
    <3>2. ~ CanComplete(text(n)) /\ ~ IsDocument(text(n))
      <4>1. clientMessage \in Seq(Piece) /\ stream[c] \in Seq(Piece)
        BY DEF TypeOK
      <4>2. ReadOnto(text(n), clientMessage, stream[c], n)
        BY <4>1, TextOfRead
      <4> HIDE DEF text
      <4>3. QED BY <4>1, <4>2, NoRepair
    <3>3. QED BY <3>1, <3>2
  <2>4. QED BY <2>1, <2>2, <2>3
<1>2. QED BY <1>1, TypeCorrect, PTL DEF Spec, DeafnessIsPermanent

-----------------------------------------------------------------------------
(* Order.  InOrder says nothing of what is still to come.  Inductive is    *)
(* the whole line of a connection's messages: what was returned, then what *)
(* waits in the stream, up to what was written last, numbered upwards.  A  *)
(* number may repeat only from a head to its tail, and no document ends    *)
(* with a head.                                                            *)
Rising(s) ==
    \A i, j \in 1 .. Len(s) :
        i < j => /\ s[i].id <= s[j].id
                 /\ s[i].part # "head" => s[i].id < s[j].id

InLine(w, s, docs) ==
    /\ Rising(s)
    /\ \A i \in 1 .. Len(s) : s[i].id <= w
    /\ \A k \in 1 .. Len(docs) :
         /\ MessageOf(docs[k]) \in 1 .. w
         /\ \A i \in 1 .. Len(s) : MessageOf(docs[k]) < s[i].id
    /\ \A k, l \in 1 .. Len(docs) : k < l => MessageOf(docs[k]) < MessageOf(docs[l])

OrderInv == \A c \in Connections : InLine(written[c], stream[c], returned[c])

(* The last thing of a document is what the read took last, and it is no   *)
(* head.                                                                   *)
LEMMA DocumentEndsAMessage ==
  ASSUME NEW m \in Seq(Piece), NEW s \in Seq(Piece), NEW n \in 1 .. Len(s),
         NEW text, ReadOnto(text, m, s, n), IsDocument(text)
  PROVE  MessageOf(text) = s[n].id /\ s[n].part # "head"
<1>1. /\ Len(m) \in Nat /\ Len(text) = Len(m) + n
      /\ text[Len(m) + n].id = s[n].id /\ text[Len(m) + n].part = s[n].part
  BY LenProperties DEF ReadOnto
<1>2. text[Len(text)].part # "head"
  <2>1. PICK k \in 0 .. Len(text) :
          /\ k < Len(text) - k
          /\ IsObject(text, k + 1, Len(text) - k)
          /\ \A i \in Len(text) - k + 1 .. Len(text) : GoesOn(text[i])
    BY DEF IsDocument
  <2>2. CASE k = 0
    <3>1. k + 1 = 1 /\ Len(text) - k = Len(text)
      BY <1>1, <2>2
    <3>2. IsObject(text, 1, Len(text))
      BY <2>1, <3>1
    <3>3. QED BY <3>2 DEF IsObject, Fits
  <2>3. CASE k # 0
    <3>1. Len(text) \in Len(text) - k + 1 .. Len(text)
      BY <1>1, <2>1, <2>3
    <3>2. QED BY <2>1, <3>1 DEF GoesOn
  <2>4. QED BY <2>2, <2>3
<1>3. QED BY <1>1, <1>2 DEF MessageOf

LEMMA WriteKeepsOrder ==
  ASSUME TypeOK, OrderInv, NEW c \in Connections, Write(c)
  PROVE  OrderInv'
<1>1. /\ stream \in [Connections -> Seq(Piece)] /\ stream[c] \in Seq(Piece)
      /\ Len(stream[c]) \in Nat /\ written[c] \in Nat
      /\ written \in [Connections -> 0 .. MaxMessages]
      /\ \A i \in 1 .. Len(stream[c]) : stream[c][i].id \in Nat
  <2>1. stream[c] \in Seq(Piece) /\ \A i \in 1 .. Len(stream[c]) : stream[c][i] \in Piece
    BY LenProperties, ElementOfSeq DEF TypeOK
  <2>2. \A i \in 1 .. Len(stream[c]) : stream[c][i].id \in Nat
    BY <2>1 DEF Piece
  <2>3. /\ stream \in [Connections -> Seq(Piece)] /\ written[c] \in Nat
        /\ written \in [Connections -> 0 .. MaxMessages]
    BY BoundAssumption DEF TypeOK
  <2>4. Len(stream[c]) \in Nat
    BY <2>1, LenProperties
  <2>5. QED BY <2>1, <2>2, <2>3, <2>4
<1>2. PICK cut \in Cuts \cup {Uncut} :
        stream' = [stream EXCEPT ![c] = @ \o Fragments(c, written[c] + 1, cut)]
  BY DEF Write
<1> DEFINE new == Fragments(c, written[c] + 1, cut)
           s == stream[c] \o new
           old == stream[c]
<1>3. /\ new \in Seq(Piece)
      /\ Len(new) \in {1, 2}
      /\ \A i \in 1 .. Len(new) : new[i].id = written[c] + 1
      /\ Len(new) = 2 => new[1].part = "head"
  <2>1. cut \in AllCuts \cup {Uncut} /\ written[c] + 1 \in Nat \ {0}
    BY <1>1, CutsAssumption
  <2> HIDE DEF new
  <2>2. QED BY <2>1, FragmentsShape, SMTT(30) DEF new
<1> HIDE DEF new
<1>4. /\ Len(s) = Len(old) + Len(new)
      /\ \A i \in 1 .. Len(old) : s[i] = old[i]
      /\ \A i \in 1 .. Len(new) : s[Len(old) + i] = new[i]
  BY <1>1, <1>3
<1>5. /\ stream'[c] = s
      /\ \A d \in Connections : d # c => /\ stream'[d] = stream[d]
                                         /\ written'[d] = written[d]
      /\ written'[c] = written[c] + 1 /\ returned' = returned
  BY <1>1, <1>2 DEF new, Write
<1> HIDE DEF s
<1>6. /\ Rising(old)
      /\ \A i \in 1 .. Len(old) : old[i].id <= written[c]
      /\ \A k \in 1 .. Len(returned[c]) :
           /\ MessageOf(returned[c][k]) \in 1 .. written[c]
           /\ \A i \in 1 .. Len(old) : MessageOf(returned[c][k]) < old[i].id
      /\ \A k, l \in 1 .. Len(returned[c]) :
           k < l => MessageOf(returned[c][k]) < MessageOf(returned[c][l])
  BY DEF OrderInv, InLine
<1>7. \A i \in 1 .. Len(s) :
        \/ i \in 1 .. Len(old) /\ s[i] = old[i] /\ s[i].id <= written[c]
        \/ /\ i > Len(old) /\ s[i].id = written[c] + 1
           /\ i < Len(s) => s[i].part = "head"
  <2> SUFFICES ASSUME NEW i \in 1 .. Len(s), i > Len(old)
               PROVE  /\ s[i].id = written[c] + 1
                      /\ i < Len(s) => s[i].part = "head"
    BY <1>1, <1>4, <1>6
  <2>1. i - Len(old) \in 1 .. Len(new) /\ s[i] = new[i - Len(old)]
    <3>1. i - Len(old) \in 1 .. Len(new) /\ Len(old) + (i - Len(old)) = i
      BY <1>1, <1>3, <1>4
    <3>2. QED BY <1>4, <3>1
  <2>2. i < Len(s) => i - Len(old) = 1 /\ Len(new) = 2
    <3>1. \A l, k, j \in Nat :
            j > l /\ j < l + k /\ (k = 1 \/ k = 2) => j - l = 1 /\ k = 2
      OBVIOUS
    <3>2. /\ i \in Nat /\ Len(new) \in Nat /\ (Len(new) = 1 \/ Len(new) = 2)
          /\ Len(old) \in Nat
      BY <1>1, <1>3, <1>4
    <3>3. QED BY <1>4, <3>1, <3>2, Zenon
  <2>3. QED BY <1>3, <2>1, <2>2
<1> HIDE DEF old
<1>8. Rising(s)
  <2> SUFFICES ASSUME NEW i \in 1 .. Len(s), NEW j \in 1 .. Len(s), i < j
               PROVE  /\ s[i].id <= s[j].id
                      /\ s[i].part # "head" => s[i].id < s[j].id
    BY DEF Rising
  <2>1. CASE i \in 1 .. Len(old) /\ j \in 1 .. Len(old)
    BY <1>4, <1>6, <2>1 DEF Rising
  <2>2. CASE i \in 1 .. Len(old) /\ j > Len(old)
    <3>1. s[i].id \in Nat
      BY <1>1, <1>4, <2>2 DEF old
    <3>2. s[i].id <= written[c] /\ s[j].id = written[c] + 1
      BY <1>1, <1>7, <2>2 DEF old
    <3>3. QED BY <1>1, <3>1, <3>2
  <2>3. CASE i > Len(old)
    <3>1. j > Len(old) /\ i < Len(s)
      BY <1>1, <1>3, <1>4, <2>3 DEF old
    <3>2. s[i].id = written[c] + 1 /\ s[j].id = written[c] + 1 /\ s[i].part = "head"
      BY <1>1, <1>7, <2>3, <3>1 DEF old
    <3>3. QED BY <1>1, <3>2
  <2>4. QED BY <1>1, <2>1, <2>2, <2>3 DEF old
<1>9. InLine(written[c] + 1, s, returned[c])
  <2>1. \A i \in 1 .. Len(s) : s[i].id <= written[c] + 1
    BY <1>1, <1>4, <1>7 DEF old
  <2>2. ASSUME NEW k \in 1 .. Len(returned[c])
        PROVE  /\ MessageOf(returned[c][k]) \in 1 .. written[c] + 1
               /\ \A i \in 1 .. Len(s) : MessageOf(returned[c][k]) < s[i].id
    <3>1. MessageOf(returned[c][k]) \in 1 .. written[c]
      BY <1>6
    <3>2. ASSUME NEW i \in 1 .. Len(s)
          PROVE  MessageOf(returned[c][k]) < s[i].id
      <4>1. CASE i \in 1 .. Len(old)
        BY <1>4, <1>6, <4>1
      <4>2. CASE i \notin 1 .. Len(old)
        <5>1. s[i].id = written[c] + 1
          BY <1>7, <4>2
        <5>2. QED BY <1>1, <3>1, <5>1
      <4>3. QED BY <4>1, <4>2
    <3>3. QED BY <1>1, <3>1, <3>2
  <2>3. QED BY <1>5, <1>6, <1>8, <2>1, <2>2 DEF InLine
<1>10. QED BY <1>5, <1>9 DEF OrderInv

LEMMA ReadKeepsOrder ==
  ASSUME TypeOK, OrderInv, NEW c \in Connections, ProcessIncomingMessage(c)
  PROVE  OrderInv'
<1>1. /\ stream[c] \in Seq(Piece) /\ clientMessage \in Seq(Piece)
      /\ Len(stream[c]) \in Nat /\ written[c] \in Nat
      /\ returned[c] \in Seq(Seq(Piece)) /\ Len(returned[c]) \in Nat
      /\ \A i \in 1 .. Len(stream[c]) : stream[c][i].id \in Nat \ {0}
  <2>1. stream[c] \in Seq(Piece) /\ \A i \in 1 .. Len(stream[c]) : stream[c][i] \in Piece
    BY LenProperties, ElementOfSeq DEF TypeOK
  <2>2. returned[c] \in Seq(Seq(Piece)) /\ Len(returned[c]) \in Nat
    BY LenProperties DEF TypeOK
  <2>3. QED BY <2>1, <2>2, BoundAssumption, LenProperties DEF TypeOK, Piece
<1>2. written' = written
  BY DEF ProcessIncomingMessage
<1>3. PICK n \in 1 .. Len(stream[c]), text \in Seq(Piece), rest \in Seq(Piece) :
        /\ ReadOnto(text, clientMessage, stream[c], n)
        /\ Len(rest) = Len(stream[c]) - n
        /\ \A i \in 1 .. Len(rest) : rest[i] = stream[c][n + i]
        /\ stream'[c] = rest
        /\ \A d \in Connections : d # c => /\ stream'[d] = stream[d]
                                           /\ returned'[d] = returned[d]
        /\ \/ IsDocument(text) /\ returned'[c] = Append(returned[c], text)
           \/ returned' = returned
  BY ReadStep
<1> DEFINE s == stream[c]
           docs == returned[c]
<1>4. /\ Rising(s)
      /\ \A i \in 1 .. Len(s) : s[i].id <= written[c]
      /\ \A k \in 1 .. Len(docs) :
           /\ MessageOf(docs[k]) \in 1 .. written[c]
           /\ \A i \in 1 .. Len(s) : MessageOf(docs[k]) < s[i].id
      /\ \A k, l \in 1 .. Len(docs) : k < l => MessageOf(docs[k]) < MessageOf(docs[l])
  BY DEF OrderInv, InLine
<1>5. \A i \in 1 .. Len(rest) : n + i \in 1 .. Len(s) /\ rest[i] = s[n + i]
  BY <1>1, <1>3
<1>6. Rising(rest)
  <2> SUFFICES ASSUME NEW i \in 1 .. Len(rest), NEW j \in 1 .. Len(rest), i < j
               PROVE  /\ rest[i].id <= rest[j].id
                      /\ rest[i].part # "head" => rest[i].id < rest[j].id
    BY DEF Rising
  <2>1. n + i < n + j
    OBVIOUS
  <2> HIDE DEF s
  <2>2. QED BY <1>4, <1>5, <2>1 DEF Rising
<1>7. InLine(written[c], rest, docs)
  BY <1>4, <1>5, <1>6 DEF InLine
<1>8. CASE IsDocument(text) /\ returned'[c] = Append(docs, text)
  <2>1. /\ MessageOf(text) = s[n].id /\ s[n].part # "head" /\ s[n].id \in Nat \ {0}
    BY <1>1, <1>3, <1>8, DocumentEndsAMessage
  <2>2. /\ MessageOf(text) \in 1 .. written[c]
        /\ \A i \in 1 .. Len(rest) : MessageOf(text) < rest[i].id
    <3>1. \A i \in 1 .. Len(rest) : n < n + i
      BY <1>1
    <3>2. ASSUME NEW i \in 1 .. Len(rest) PROVE MessageOf(text) < rest[i].id
      BY <1>1, <1>4, <1>5, <2>1, <3>1 DEF Rising
    <3>3. QED BY <1>1, <1>4, <2>1, <3>2
  <2> DEFINE docs2 == Append(docs, text)
  <2>3. /\ Len(docs2) = Len(docs) + 1
        /\ \A k \in 1 .. Len(docs) : docs2[k] = docs[k]
        /\ docs2[Len(docs) + 1] = text
    BY <1>1, AppendProperties
  <2>4. \A k \in 1 .. Len(docs2) : k \in 1 .. Len(docs) \/ k = Len(docs) + 1
    <3>1. \A l \in Nat : \A k \in 1 .. l + 1 : k \in 1 .. l \/ k = l + 1
      OBVIOUS
    <3>2. QED BY <1>1, <2>3, <3>1, Zenon
  <2> HIDE DEF docs2, docs, s
  <2>5. \A k \in 1 .. Len(docs) : MessageOf(docs[k]) < MessageOf(text)
    BY <1>1, <1>4, <2>1 DEF s
  <2>6. ASSUME NEW k \in 1 .. Len(docs2), NEW l \in 1 .. Len(docs2), k < l
        PROVE  MessageOf(docs2[k]) < MessageOf(docs2[l])
    <3>1. k \in 1 .. Len(docs)
      BY <1>1, <2>3, <2>6 DEF docs
    <3>2. QED BY <1>4, <2>3, <2>4, <2>5, <2>6, <3>1
  <2>7. ASSUME NEW k \in 1 .. Len(docs2)
        PROVE  /\ MessageOf(docs2[k]) \in 1 .. written[c]
               /\ \A i \in 1 .. Len(rest) : MessageOf(docs2[k]) < rest[i].id
    BY <1>7, <2>2, <2>3, <2>4 DEF InLine
  <2>8. InLine(written[c], rest, docs2)
    BY <1>7, <2>6, <2>7 DEF InLine
  <2>9. QED BY <1>2, <1>3, <1>8, <2>8 DEF OrderInv, docs2, docs
<1>9. CASE returned' = returned
  BY <1>2, <1>3, <1>7, <1>9 DEF OrderInv
<1>10. QED BY <1>3, <1>8, <1>9

(* The line of every connection's messages is kept.                        *)
LEMMA OrderInvariant == Spec => []OrderInv
<1>1. Init => OrderInv
  <2>1. Len(<<>>) = 0 /\ 1 .. 0 = {}
    OBVIOUS
  <2>2. \A w : InLine(w, <<>>, <<>>)
    BY <2>1 DEF InLine, Rising
  <2>3. QED BY <2>2 DEF Init, OrderInv
<1>2. TypeOK /\ OrderInv /\ [Next]_vars => OrderInv'
  <2> SUFFICES ASSUME TypeOK, OrderInv, [Next]_vars PROVE OrderInv'
    OBVIOUS
  <2>1. ASSUME NEW c \in Connections, Write(c) PROVE OrderInv'
    BY <2>1, WriteKeepsOrder
  <2>2. ASSUME NEW c \in Connections, ProcessIncomingMessage(c) PROVE OrderInv'
    BY <2>2, ReadKeepsOrder
  <2>3. ASSUME NEW c \in Connections, Connect(c) PROVE OrderInv'
    BY <2>3 DEF Connect, OrderInv
  <2>4. ASSUME NEW c \in Connections, Disconnect(c) PROVE OrderInv'
    <3>1. \A d \in Connections : stream'[d] = stream[d] \/ stream'[d] = <<>>
      BY <2>4 DEF Disconnect, TypeOK
    <3>2. written' = written /\ returned' = returned
      BY <2>4 DEF Disconnect
    <3>3. \A d \in Connections : InLine(written[d], <<>>, returned[d])
      BY EmptySeq DEF OrderInv, InLine, Rising
    <3>4. QED BY <3>1, <3>2, <3>3 DEF OrderInv
  <2>5. CASE UNCHANGED vars
    BY <2>5 DEF vars, OrderInv
  <2>6. QED BY <2>1, <2>2, <2>3, <2>4, <2>5 DEF Next
<1>3. QED BY <1>1, <1>2, TypeCorrect, PTL DEF Spec

(* The messages of one client are processed in the order it wrote them and *)
(* none twice, however the network cuts them and whoever else writes       *)
(* (client_connection.cpp:92, 103).                                        *)
THEOREM ProcessedInOrder == Spec => []InOrder
<1>1. TypeOK /\ OrderInv => InOrder
  <2> SUFFICES ASSUME TypeOK, OrderInv, NEW c \in Connections,
                      NEW i \in DOMAIN returned[c], NEW j \in DOMAIN returned[c], i < j
               PROVE  MessageOf(returned[c][i]) < MessageOf(returned[c][j])
    BY DEF InOrder
  <2>1. DOMAIN returned[c] = 1 .. Len(returned[c])
    BY LenProperties DEF TypeOK
  <2>2. QED BY <2>1 DEF OrderInv, InLine
<1>2. QED BY <1>1, OrderInvariant, TypeCorrect, PTL

-----------------------------------------------------------------------------
(* Whole documents.  ReturnedWhole is not inductive: that a document       *)
(* without a loose cut is one message of its reader depends on what is     *)
(* still to be read.  What makes it so is the fate of tight messages, cut  *)
(* where only a tail cut alike goes on.  In what a client wrote a tail     *)
(* follows its own head.  In the shared string no tight tail is without    *)
(* its own head.  And when the next thing to be read is a tight tail, its  *)
(* head is still in the shared string: nothing may have emptied that,      *)
(* because a document with the head in it ends the word or the key with a  *)
(* tight tail, whose own head that can only be; and the tail is not yet    *)
(* read, since what is held of a client comes before what it still sends.  *)
Tight(p) == p.cut.ends \in {"key", "afterKey", "text"}

TightHead(p) == p.part = "head" /\ Tight(p)
TightTail(p) == p.part = "tail" /\ Tight(p)

HeadOf(h, t) == /\ h.part = "head" /\ h.cut = t.cut
                /\ h.owner = t.owner /\ h.id = t.id

TailFollowsHead(c, s) ==
    \A i \in 1 .. Len(s) :
        /\ s[i].owner = c
        /\ i > 1 /\ s[i].part = "tail" =>
             /\ s[i - 1].part = "head" /\ s[i - 1].cut = s[i].cut
             /\ s[i - 1].id = s[i].id

HeadIsHeld(s, m) ==
    s # <<>> /\ TightTail(s[1]) => \E i \in 1 .. Len(m) : HeadOf(m[i], s[1])

TailsHaveHeads(m) ==
    \A j \in 1 .. Len(m) :
        TightTail(m[j]) => \E i \in 1 .. Len(m) : i < j /\ HeadOf(m[i], m[j])

HeldBefore(c, w, s, m) ==
    \A i \in 1 .. Len(m) : m[i].owner = c =>
        /\ m[i].id <= w
        /\ \A k \in 1 .. Len(s) : /\ m[i].id <= s[k].id
                                  /\ m[i].part # "head" => m[i].id < s[k].id

HalvesInv ==
    /\ \A c \in Connections : TailFollowsHead(c, stream[c])
    /\ \A c \in Connections : HeadIsHeld(stream[c], clientMessage)
    /\ \A c \in Connections : HeldBefore(c, written[c], stream[c], clientMessage)
    /\ TailsHaveHeads(clientMessage)

(* A tail fits a tight head only if it is tight itself, and the other way  *)
(* round.                                                                  *)
LEMMA TightFits ==
  ASSUME NEW h \in Piece, NEW t \in Piece, Fits(h, t)
  PROVE  Tight(h) <=> Tight(t)
<1> DEFINE tight == {"key", "afterKey", "text"}
           goes == {"key", "colon", "text"}
<1>1. \A pair \in Adjacent \cup {<<"brace", "close">>} :
        pair[1] \in tight <=> pair[2] \in goes
  BY DEF Adjacent
<1>2. h.cut.ends \in tight <=> t.cut.starts \in goes
  <2>1. <<h.cut.ends, t.cut.starts>> \in Adjacent \cup {<<"brace", "close">>}
    BY DEF Fits
  <2> HIDE DEF tight, goes
  <2>2. QED BY <1>1, <2>1
<1>3. t.cut.ends \in tight <=> t.cut.starts \in goes
  <2>1. CASE t.cut = Uncut
    BY <2>1 DEF Uncut
  <2>2. CASE t.cut \in AllCuts
    <3>1. <<t.cut.ends, t.cut.starts>> \in Adjacent
      BY <2>2 DEF AllCuts
    <3> HIDE DEF tight, goes
    <3>2. QED BY <1>1, <3>1
  <2>3. QED BY <2>1, <2>2 DEF Piece
<1>4. QED BY <1>2, <1>3 DEF Tight

(* In a document the only tight head opens the innermost object, and a     *)
(* fitting tail ends it.                                                   *)
LEMMA TightInDocument ==
  ASSUME NEW text \in Seq(Piece), IsDocument(text)
  PROVE  \E b, e \in 1 .. Len(text) :
           \A i \in 1 .. Len(text) :
             TightHead(text[i]) => i = b /\ b < e /\ Fits(text[b], text[e])
<1>1. PICK k \in 0 .. Len(text) :
        /\ k < Len(text) - k
        /\ \A i \in 1 .. k : AwaitsValue(text[i])
        /\ IsObject(text, k + 1, Len(text) - k)
        /\ \A i \in Len(text) - k + 1 .. Len(text) : GoesOn(text[i])
  BY DEF IsDocument
<1> DEFINE b == k + 1
           e == Len(text) - k
<1>2. b \in 1 .. Len(text) /\ e \in 1 .. Len(text) /\ Len(text) \in Nat
  BY <1>1, LenProperties
<1>3. ASSUME NEW i \in 1 .. Len(text), TightHead(text[i])
      PROVE  i = b /\ b < e /\ Fits(text[b], text[e])
  <2>1. i \in 1 .. k \/ i = b \/ i \in b + 1 .. e - 1 \/ i = e \/ i \in e + 1 .. Len(text)
    BY <1>1, <1>2
  <2>2. i \notin 1 .. k
    BY <1>1, <1>3 DEF TightHead, Tight, AwaitsValue
  <2>3. i \notin e + 1 .. Len(text)
    BY <1>1, <1>3 DEF TightHead, GoesOn
  <2>4. IsObject(text, b, e)
    BY <1>1
  <2> HIDE DEF b, e
  <2>5. i \notin b + 1 .. e - 1
    BY <1>2, <1>3, <2>4 DEF IsObject, TightHead, Tight, Quoteless
  <2>6. i = b \/ i = e
    BY <2>1, <2>2, <2>3, <2>5
  <2>7. QED BY <1>3, <2>4, <2>6 DEF IsObject, TightHead, Fits
<1> HIDE DEF b, e
<1>4. QED BY <1>2, <1>3

(* So a document with a tight head in it has the tail of that head in it.  *)
LEMMA TightHeadIsEnded ==
  ASSUME NEW text \in Seq(Piece), IsDocument(text), TailsHaveHeads(text),
         NEW i \in 1 .. Len(text), TightHead(text[i])
  PROVE  \E j \in 1 .. Len(text) : /\ i < j /\ TightTail(text[j])
                                   /\ Fits(text[i], text[j]) /\ HeadOf(text[i], text[j])
<1>1. PICK b \in 1 .. Len(text), e \in 1 .. Len(text) :
        \A l \in 1 .. Len(text) :
          TightHead(text[l]) => l = b /\ b < e /\ Fits(text[b], text[e])
  BY TightInDocument
<1>2. i = b /\ b < e /\ Fits(text[b], text[e])
  BY <1>1
<1>3. text[b] \in Piece /\ text[e] \in Piece
  BY ElementOfSeq
<1>4. TightTail(text[e])
  BY <1>2, <1>3, TightFits DEF TightTail, TightHead, Fits
<1>5. PICK l \in 1 .. Len(text) : l < e /\ HeadOf(text[l], text[e])
  BY <1>4 DEF TailsHaveHeads
<1>6. TightHead(text[l])
  BY <1>4, <1>5 DEF TightHead, TightTail, Tight, HeadOf
<1>7. l = i
  BY <1>1, <1>2, <1>6
<1>8. QED BY <1>2, <1>4, <1>5, <1>7

(* What a read adds to the shared string brings its heads with it.         *)
LEMMA TextHasHeads ==
  ASSUME NEW c \in Connections, NEW m \in Seq(Piece), NEW s \in Seq(Piece),
         NEW n \in 1 .. Len(s), NEW text, ReadOnto(text, m, s, n),
         TailFollowsHead(c, s), HeadIsHeld(s, m), TailsHaveHeads(m)
  PROVE  TailsHaveHeads(text)
<1>1. /\ Len(m) \in Nat /\ Len(s) \in Nat /\ n \in Nat /\ n >= 1 /\ n <= Len(s)
      /\ Len(text) = Len(m) + n
      /\ \A i \in 1 .. Len(m) : text[i] = m[i]
      /\ \A i \in 1 .. n : /\ text[Len(m) + i].owner = s[i].owner
                           /\ text[Len(m) + i].id = s[i].id
                           /\ text[Len(m) + i].cut = s[i].cut
                           /\ text[Len(m) + i].part = s[i].part
  BY LenProperties DEF ReadOnto
<1> SUFFICES ASSUME NEW j \in 1 .. Len(text), TightTail(text[j])
             PROVE  \E i \in 1 .. Len(text) : i < j /\ HeadOf(text[i], text[j])
  BY DEF TailsHaveHeads
<1>2. CASE j \in 1 .. Len(m)
  <2>1. PICK i \in 1 .. Len(m) : i < j /\ HeadOf(m[i], m[j])
    BY <1>1, <1>2 DEF TailsHaveHeads
  <2>2. i \in 1 .. Len(text) /\ text[i] = m[i] /\ text[j] = m[j]
    BY <1>1, <1>2
  <2>3. QED BY <2>1, <2>2
<1>3. CASE j = Len(m) + 1
  <2>1. /\ text[j].owner = s[1].owner /\ text[j].id = s[1].id
        /\ text[j].cut = s[1].cut /\ text[j].part = s[1].part
    BY <1>1, <1>3
  <2>2. s # <<>> /\ TightTail(s[1])
    BY <1>1, <2>1 DEF TightTail, Tight
  <2>3. PICK i \in 1 .. Len(m) : HeadOf(m[i], s[1])
    BY <2>2 DEF HeadIsHeld
  <2>4. i \in 1 .. Len(text) /\ i < j /\ text[i] = m[i]
    BY <1>1, <1>3
  <2>5. QED BY <2>1, <2>3, <2>4 DEF HeadOf
<1>4. CASE j > Len(m) + 1
  <2> DEFINE l == j - Len(m)
  <2>1. /\ l \in 1 .. n /\ l > 1 /\ l - 1 \in 1 .. n /\ l \in 1 .. Len(s)
        /\ Len(m) + l = j /\ Len(m) + (l - 1) = j - 1
        /\ j - 1 \in 1 .. Len(text) /\ j - 1 < j
    BY <1>1, <1>4
  <2> HIDE DEF l
  <2>2. /\ text[j].owner = s[l].owner /\ text[j].id = s[l].id
        /\ text[j].cut = s[l].cut /\ text[j].part = s[l].part
    BY <1>1, <2>1
  <2>3. /\ text[j - 1].owner = s[l - 1].owner /\ text[j - 1].id = s[l - 1].id
        /\ text[j - 1].cut = s[l - 1].cut /\ text[j - 1].part = s[l - 1].part
    BY <1>1, <2>1
  <2>4. l - 1 \in 1 .. Len(s)
    BY <1>1, <2>1
  <2>5. /\ s[l - 1].part = "head" /\ s[l - 1].cut = s[l].cut /\ s[l - 1].id = s[l].id
        /\ s[l].owner = c /\ s[l - 1].owner = c
    <3>1. s[l].part = "tail"
      BY <2>2 DEF TightTail
    <3>2. QED BY <2>1, <2>4, <3>1 DEF TailFollowsHead
  <2>6. HeadOf(text[j - 1], text[j])
    BY <2>2, <2>3, <2>5 DEF HeadOf
  <2>7. QED BY <2>1, <2>6
<1>5. j \in 1 .. Len(m) \/ j = Len(m) + 1 \/ j > Len(m) + 1
  <2>1. j \in Nat /\ j >= 1
    BY <1>1
  <2>2. \A a, b \in Nat : a >= 1 => a \in 1 .. b \/ a = b + 1 \/ a > b + 1
    OBVIOUS
  <2>3. QED BY <1>1, <2>1, <2>2
<1>6. QED BY <1>2, <1>3, <1>4, <1>5, Zenon

(* Emptying the shared string loses no head whose tail is still to come.   *)
LEMMA NoHeadDropped ==
  ASSUME NEW c \in Connections, NEW d \in Connections, d # c,
         NEW m \in Seq(Piece), NEW r \in Seq(Piece), NEW n \in 1 .. Len(r),
         NEW text, ReadOnto(text, m, r, n),
         IsDocument(text), TailsHaveHeads(text), TailFollowsHead(c, r),
         NEW w, NEW s \in Seq(Piece),
         TailFollowsHead(d, s), HeadIsHeld(s, m), HeldBefore(d, w, s, m)
  PROVE  HeadIsHeld(s, <<>>)
<1> SUFFICES ASSUME s # <<>>, TightTail(s[1]) PROVE FALSE
  BY DEF HeadIsHeld
<1>1. /\ Len(m) \in Nat /\ Len(r) \in Nat /\ Len(text) = Len(m) + n
      /\ n \in Nat /\ n >= 1 /\ n <= Len(r)
      /\ text \in Seq(Piece) /\ 1 \in 1 .. Len(s)
      /\ \A i \in 1 .. Len(m) : text[i] = m[i]
      /\ \A i \in 1 .. n : text[Len(m) + i].owner = r[i].owner
  BY EmptySeq, LenProperties DEF ReadOnto
<1>2. PICK i \in 1 .. Len(m) : HeadOf(m[i], s[1])
  BY DEF HeadIsHeld
<1>3. i \in 1 .. Len(text) /\ text[i] = m[i] /\ TightHead(text[i])
  BY <1>1, <1>2 DEF HeadOf, TightHead, TightTail, Tight
<1>4. PICK j \in 1 .. Len(text) : TightTail(text[j]) /\ HeadOf(text[i], text[j])
  BY <1>1, <1>3, TightHeadIsEnded
<1>5. text[j].owner = d /\ text[j].id = s[1].id /\ text[j].part = "tail"
  BY <1>1, <1>2, <1>3, <1>4 DEF HeadOf, TightTail, TailFollowsHead
<1>6. j \in 1 .. Len(m)
  <2> SUFFICES ASSUME j \notin 1 .. Len(m) PROVE FALSE
    OBVIOUS
  <2>1. j - Len(m) \in 1 .. n /\ Len(m) + (j - Len(m)) = j /\ j - Len(m) \in 1 .. Len(r)
    BY <1>1
  <2>2. text[j].owner = c
    BY <1>1, <2>1 DEF TailFollowsHead
  <2>3. QED BY <1>5, <2>2
<1>7. /\ m[j].owner = d /\ m[j].part # "head" /\ m[j].id = s[1].id
      /\ s[1] \in Piece
  BY <1>1, <1>5, <1>6, ElementOfSeq
<1>8. m[j].id < s[1].id
  BY <1>1, <1>6, <1>7 DEF HeldBefore
<1>9. s[1].id \in Nat
  BY <1>7 DEF Piece
<1>10. QED BY <1>7, <1>8, <1>9

ComesAfter(c, p, s) ==
    s # <<>> /\ s[1].part = "tail" =>
        p.part = "head" /\ p.cut = s[1].cut /\ p.owner = c /\ p.id = s[1].id

(* What is left after a read is still well formed.                         *)
LEMMA Unread ==
  ASSUME NEW c \in Connections, NEW s \in Seq(Piece), NEW n \in 1 .. Len(s),
         TailFollowsHead(c, s),
         NEW rest \in Seq(Piece), Len(rest) = Len(s) - n,
         \A i \in 1 .. Len(rest) : rest[i] = s[n + i]
  PROVE  TailFollowsHead(c, rest) /\ ComesAfter(c, s[n], rest)
<1>1. Len(s) \in Nat /\ n \in Nat /\ n >= 1 /\ n <= Len(s)
  BY LenProperties
<1>2. /\ rest \in Seq(Piece)
      /\ Len(rest) = Len(s) - n
      /\ \A i \in 1 .. Len(s) - n : rest[i] = s[n + i]
  OBVIOUS
<1>3. TailFollowsHead(c, rest)
  <2> SUFFICES ASSUME NEW i \in 1 .. Len(rest)
               PROVE  /\ rest[i].owner = c
                      /\ i > 1 /\ rest[i].part = "tail" =>
                           /\ rest[i - 1].part = "head"
                           /\ rest[i - 1].cut = rest[i].cut
                           /\ rest[i - 1].id = rest[i].id
    BY DEF TailFollowsHead
  <2>1. n + i \in 1 .. Len(s) /\ rest[i] = s[n + i]
    BY <1>1, <1>2
  <2>2. rest[i].owner = c
    BY <2>1 DEF TailFollowsHead
  <2>3. ASSUME i > 1, rest[i].part = "tail"
        PROVE  /\ rest[i - 1].part = "head" /\ rest[i - 1].cut = rest[i].cut
               /\ rest[i - 1].id = rest[i].id
    <3>1. i - 1 \in 1 .. Len(s) - n /\ n + (i - 1) = (n + i) - 1
      BY <1>1, <1>2, <2>3
    <3>2. rest[i - 1] = s[(n + i) - 1]
      BY <1>2, <3>1
    <3>3. n + i > 1
      BY <1>1
    <3>4. QED BY <2>1, <2>3, <3>2, <3>3 DEF TailFollowsHead
  <2>4. QED BY <2>2, <2>3
<1>4. ASSUME rest # <<>>, rest[1].part = "tail"
      PROVE  /\ s[n].part = "head" /\ s[n].cut = rest[1].cut
             /\ s[n].owner = c /\ s[n].id = rest[1].id
  <2>1. Len(rest) >= 1
    BY <1>2, <1>4, EmptySeq
  <2>2. n + 1 \in 1 .. Len(s) /\ rest[1] = s[n + 1] /\ (n + 1) - 1 = n
    BY <1>1, <1>2, <2>1
  <2>3. QED BY <1>1, <1>4, <2>2 DEF TailFollowsHead
<1>5. QED BY <1>3, <1>4 DEF ComesAfter

(* What is held of a client comes before what is left of its stream.       *)
LEMMA ReadKeepsBefore ==
  ASSUME NEW c \in Connections, NEW d \in Connections, NEW w,
         NEW m \in Seq(Piece), NEW r \in Seq(Piece), NEW n \in 1 .. Len(r),
         NEW text, ReadOnto(text, m, r, n), TailFollowsHead(c, r),
         NEW s \in Seq(Piece), HeldBefore(d, w, s, m),
         d = c => /\ s = r /\ Rising(r) /\ \A i \in 1 .. Len(r) : r[i].id <= w,
         NEW rest \in Seq(Piece),
         d # c => rest = s,
         d = c => /\ Len(rest) = Len(r) - n
                  /\ \A i \in 1 .. Len(rest) : rest[i] = r[n + i]
  PROVE  HeldBefore(d, w, rest, text)
<1>1. /\ Len(m) \in Nat /\ Len(r) \in Nat /\ Len(text) = Len(m) + n
      /\ n \in Nat /\ n >= 1 /\ n <= Len(r) /\ Len(rest) \in Nat
      /\ \A i \in 1 .. Len(m) : text[i] = m[i]
      /\ \A i \in 1 .. n : /\ text[Len(m) + i].owner = r[i].owner
                           /\ text[Len(m) + i].id = r[i].id
                           /\ text[Len(m) + i].part = r[i].part
  BY LenProperties DEF ReadOnto
<1> SUFFICES ASSUME NEW i \in 1 .. Len(text), text[i].owner = d
             PROVE  /\ text[i].id <= w
                    /\ \A k \in 1 .. Len(rest) :
                         /\ text[i].id <= rest[k].id
                         /\ text[i].part # "head" => text[i].id < rest[k].id
  BY DEF HeldBefore
<1>2. ASSUME NEW k \in 1 .. Len(rest), d = c
      PROVE  n + k \in 1 .. Len(r) /\ rest[k] = r[n + k]
  BY <1>1, <1>2
<1>3. CASE i \in 1 .. Len(m)
  <2>1. text[i] = m[i] /\ m[i].owner = d
    BY <1>1, <1>3
  <2>2. QED BY <1>2, <1>3, <2>1 DEF HeldBefore
<1>4. CASE i \notin 1 .. Len(m)
  <2> DEFINE j == i - Len(m)
  <2>1. j \in 1 .. n /\ Len(m) + j = i /\ j \in 1 .. Len(r)
    BY <1>1, <1>4
  <2> HIDE DEF j
  <2>2. text[i].owner = r[j].owner /\ text[i].id = r[j].id /\ text[i].part = r[j].part
    BY <1>1, <2>1
  <2>3. d = c
    BY <2>1, <2>2 DEF TailFollowsHead
  <2>4. ASSUME NEW k \in 1 .. Len(rest)
        PROVE  /\ r[j].id <= rest[k].id
               /\ r[j].part # "head" => r[j].id < rest[k].id
    <3>1. n + k \in 1 .. Len(r) /\ rest[k] = r[n + k] /\ j < n + k
      BY <1>1, <1>2, <2>1, <2>3
    <3>2. QED BY <2>1, <2>3, <3>1 DEF Rising
  <2>5. QED BY <2>1, <2>2, <2>3, <2>4
<1>5. QED BY <1>3, <1>4

(* One step of the readyRead slot keeps the halves together.               *)
LEMMA ReadKeepsHalves ==
  ASSUME TypeOK, OrderInv, HalvesInv, NEW c \in Connections, ProcessIncomingMessage(c)
  PROVE  HalvesInv'
<1>1. PICK n \in 1 .. Len(stream[c]), text \in Seq(Piece), rest \in Seq(Piece) :
        /\ ReadOnto(text, clientMessage, stream[c], n)
        /\ rest = SubSeq(stream[c], n + 1, Len(stream[c]))
        /\ Len(rest) = Len(stream[c]) - n
        /\ \A i \in 1 .. Len(rest) : rest[i] = stream[c][n + i]
        /\ stream'[c] = rest
        /\ \A d \in Connections : d # c => stream'[d] = stream[d]
        /\ \/ IsDocument(text) /\ clientMessage' = <<>>
           \/ ~ IsDocument(text) /\ clientMessage' = text
  BY ReadStep
<1>2. /\ \A d \in Connections : stream[d] \in Seq(Piece)
      /\ clientMessage \in Seq(Piece) /\ Len(clientMessage) \in Nat
      /\ Len(stream[c]) \in Nat /\ written' = written
  BY LenProperties DEF TypeOK, ProcessIncomingMessage
<1>3. /\ \A d \in Connections : TailFollowsHead(d, stream[d])
      /\ \A d \in Connections : HeadIsHeld(stream[d], clientMessage)
      /\ \A d \in Connections : HeldBefore(d, written[d], stream[d], clientMessage)
      /\ TailsHaveHeads(clientMessage)
  BY DEF HalvesInv
<1>4. /\ TailFollowsHead(c, rest)
      /\ rest # <<>> /\ rest[1].part = "tail" =>
           /\ stream[c][n].part = "head" /\ stream[c][n].cut = rest[1].cut
           /\ stream[c][n].owner = c /\ stream[c][n].id = rest[1].id
  <2>1. stream[c] \in Seq(Piece) /\ TailFollowsHead(c, stream[c])
    BY <1>2, <1>3
  <2> DEFINE s == stream[c]
  <2>2. /\ s \in Seq(Piece) /\ TailFollowsHead(c, s) /\ n \in 1 .. Len(s)
        /\ Len(rest) = Len(s) - n /\ \A i \in 1 .. Len(rest) : rest[i] = s[n + i]
    BY <1>1, <2>1
  <2> HIDE DEF s
  <2>3. TailFollowsHead(c, rest) /\ ComesAfter(c, s[n], rest)
    BY <2>2, Unread
  <2>4. QED BY <2>3 DEF s, ComesAfter
<1>5. \A d \in Connections : TailFollowsHead(d, stream'[d])
  BY <1>1, <1>3, <1>4
<1>6. TailsHaveHeads(text)
  BY <1>1, <1>2, <1>3, TextHasHeads
<1>7. /\ Len(text) = Len(clientMessage) + n /\ n >= 1
      /\ text[Len(text)].owner = stream[c][n].owner
      /\ text[Len(text)].id = stream[c][n].id
      /\ text[Len(text)].cut = stream[c][n].cut
      /\ text[Len(text)].part = stream[c][n].part
  BY <1>1, <1>2 DEF ReadOnto
<1>8. CASE IsDocument(text) /\ clientMessage' = <<>>
  <2>1. 1 .. Len(<<>>) = {}
    OBVIOUS
  <2>2. stream[c][n].part # "head"
    BY <1>1, <1>2, <1>8, DocumentEndsAMessage
  <2>3. HeadIsHeld(rest, <<>>)
    BY <1>4, <2>2 DEF HeadIsHeld, TightTail
  <2>4. ASSUME NEW d \in Connections, d # c
        PROVE  HeadIsHeld(stream[d], <<>>)
    <3>1. stream[c] \in Seq(Piece) /\ stream[d] \in Seq(Piece) /\ written[d] = written[d]
      BY <1>2
    <3>2. QED BY <1>1, <1>2, <1>3, <1>6, <1>8, <2>4, <3>1, NoHeadDropped
  <2>5. \A d \in Connections : HeadIsHeld(stream'[d], <<>>)
    BY <1>1, <2>3, <2>4
  <2>6. /\ \A d \in Connections : HeldBefore(d, written'[d], stream'[d], <<>>)
        /\ TailsHaveHeads(<<>>)
    BY <2>1 DEF HeldBefore, TailsHaveHeads
  <2>7. QED BY <1>5, <1>8, <2>5, <2>6 DEF HalvesInv
<1>9. CASE clientMessage' = text
  <2>1. HeadIsHeld(rest, text)
    <3> SUFFICES ASSUME rest # <<>>, TightTail(rest[1])
                 PROVE  \E i \in 1 .. Len(text) : HeadOf(text[i], rest[1])
      BY DEF HeadIsHeld
    <3>1. rest[1].owner = c
      <4>1. 1 \in 1 .. Len(rest)
        BY EmptySeq, LenProperties
      <4>2. QED BY <1>4, <4>1 DEF TailFollowsHead
    <3>2. HeadOf(text[Len(text)], rest[1])
      BY <1>4, <1>7, <3>1 DEF HeadOf, TightTail
    <3>3. Len(text) \in 1 .. Len(text)
      BY <1>2, <1>7
    <3>4. QED BY <3>2, <3>3
  <2>2. ASSUME NEW d \in Connections, d # c PROVE HeadIsHeld(stream[d], text)
    <3>1. \A i \in 1 .. Len(clientMessage) :
            i \in 1 .. Len(text) /\ text[i] = clientMessage[i]
      BY <1>1, <1>2, <1>7 DEF ReadOnto
    <3>2. QED BY <1>3, <3>1 DEF HeadIsHeld
  <2>3. \A d \in Connections : HeadIsHeld(stream'[d], text)
    BY <1>1, <2>1, <2>2
  <2>4. ASSUME NEW d \in Connections
        PROVE  HeldBefore(d, written[d], stream'[d], text)
    <3>1. /\ stream[d] \in Seq(Piece) /\ stream[c] \in Seq(Piece)
          /\ HeldBefore(d, written[d], stream[d], clientMessage)
          /\ TailFollowsHead(c, stream[c])
      BY <1>2, <1>3
    <3>2. /\ Rising(stream[c])
          /\ \A i \in 1 .. Len(stream[c]) : stream[c][i].id <= written[c]
      BY DEF OrderInv, InLine
    <3> DEFINE left == stream'[d]
               w == written[d]
               s == stream[d]
    <3>3. /\ left \in Seq(Piece)
          /\ d # c => left = s
          /\ d = c => left = rest
      BY <1>1, <3>1
    <3>4. /\ d = c => /\ s = stream[c] /\ Rising(stream[c])
                      /\ \A i \in 1 .. Len(stream[c]) : stream[c][i].id <= w
          /\ d = c => /\ Len(left) = Len(stream[c]) - n
                      /\ \A i \in 1 .. Len(left) : left[i] = stream[c][n + i]
      BY <1>1, <3>2, <3>3
    <3>5. s \in Seq(Piece) /\ HeldBefore(d, w, s, clientMessage)
      BY <3>1
    <3> HIDE DEF left, w, s
    <3>6. HeldBefore(d, w, left, text)
      BY <1>1, <1>2, <3>1, <3>3, <3>4, <3>5, ReadKeepsBefore
    <3>7. QED BY <3>6 DEF left, w
  <2>5. QED BY <1>2, <1>5, <1>6, <1>9, <2>3, <2>4 DEF HalvesInv
<1>10. QED BY <1>1, <1>8, <1>9

(* What a client writes starts with a whole message or a head, and has the *)
(* next number.                                                            *)
LEMMA WriteKeepsHalves ==
  ASSUME TypeOK, OrderInv, HalvesInv, NEW c \in Connections, Write(c)
  PROVE  HalvesInv'
<1>1. /\ stream \in [Connections -> Seq(Piece)] /\ stream[c] \in Seq(Piece)
      /\ Len(stream[c]) \in Nat /\ written[c] \in Nat
      /\ written \in [Connections -> 0 .. MaxMessages]
      /\ clientMessage \in Seq(Piece)
  BY BoundAssumption, LenProperties DEF TypeOK
<1>2. PICK cut \in Cuts \cup {Uncut} :
        stream' = [stream EXCEPT ![c] = @ \o Fragments(c, written[c] + 1, cut)]
  BY DEF Write
<1> DEFINE new == Fragments(c, written[c] + 1, cut)
           s == stream[c] \o new
<1>3. /\ new \in Seq(Piece)
      /\ Len(new) \in {1, 2}
      /\ \A i \in 1 .. Len(new) :
           new[i].owner = c /\ new[i].cut = cut /\ new[i].id = written[c] + 1
      /\ Len(new) = 1 => new[1].part = "all"
      /\ Len(new) = 2 => new[1].part = "head" /\ new[2].part = "tail"
  <2>1. cut \in AllCuts \cup {Uncut} /\ written[c] + 1 \in Nat \ {0}
    BY <1>1, CutsAssumption
  <2> HIDE DEF new
  <2>2. QED BY <2>1, FragmentsShape, SMTT(30) DEF new
<1> HIDE DEF new
<1>4. /\ s \in Seq(Piece)
      /\ Len(s) = Len(stream[c]) + Len(new)
      /\ \A i \in 1 .. Len(stream[c]) : s[i] = stream[c][i]
      /\ \A i \in 1 .. Len(new) : s[Len(stream[c]) + i] = new[i]
  BY <1>1, <1>3
<1>5. /\ stream'[c] = s /\ written'[c] = written[c] + 1
      /\ \A d \in Connections : d # c => stream'[d] = stream[d] /\ written'[d] = written[d]
      /\ clientMessage' = clientMessage
  BY <1>1, <1>2 DEF new, Write
<1> HIDE DEF s
<1>6. new[1].part # "tail" /\ Len(new) >= 1
  BY <1>3
<1>7. TailFollowsHead(c, s)
  <2> SUFFICES ASSUME NEW i \in 1 .. Len(s)
               PROVE  /\ s[i].owner = c
                      /\ i > 1 /\ s[i].part = "tail" =>
                           /\ s[i - 1].part = "head" /\ s[i - 1].cut = s[i].cut
                           /\ s[i - 1].id = s[i].id
    BY DEF TailFollowsHead
  <2>1. CASE i \in 1 .. Len(stream[c])
    <3>1. TailFollowsHead(c, stream[c])
      BY DEF HalvesInv
    <3>2. i > 1 => i - 1 \in 1 .. Len(stream[c])
      BY <1>1, <2>1
    <3>3. QED BY <1>4, <2>1, <3>1, <3>2 DEF TailFollowsHead
  <2>2. CASE i = Len(stream[c]) + 1
    BY <1>3, <1>4, <1>6, <2>2
  <2>3. CASE i = Len(stream[c]) + 2 /\ Len(new) = 2
    <3>1. /\ s[Len(stream[c]) + 1] = new[1] /\ s[Len(stream[c]) + 2] = new[2]
          /\ i - 1 = Len(stream[c]) + 1
      BY <1>1, <1>3, <1>4, <2>3
    <3>2. 1 \in 1 .. Len(new) /\ 2 \in 1 .. Len(new)
      BY <2>3
    <3>3. QED BY <1>3, <2>3, <3>1, <3>2
  <2>4. \A l, k, j \in Nat :
          j >= 1 /\ j <= l + k /\ (k = 1 \/ k = 2) =>
            j <= l \/ j = l + 1 \/ (j = l + 2 /\ k = 2)
    OBVIOUS
  <2>5. /\ i \in Nat /\ i >= 1 /\ i <= Len(stream[c]) + Len(new)
        /\ Len(new) \in Nat /\ (Len(new) = 1 \/ Len(new) = 2)
    BY <1>1, <1>3, <1>4
  <2>6. \/ i <= Len(stream[c])
        \/ i = Len(stream[c]) + 1
        \/ i = Len(stream[c]) + 2 /\ Len(new) = 2
    BY <1>1, <2>4, <2>5
  <2>7. i <= Len(stream[c]) => i \in 1 .. Len(stream[c])
    BY <1>1, <2>5
  <2>8. QED BY <2>1, <2>2, <2>3, <2>6, <2>7
<1>8. HeadIsHeld(s, clientMessage)
  <2>1. CASE stream[c] = <<>>
    <3>1. s[1] = new[1]
      BY <1>1, <1>4, <1>6, <2>1, EmptySeq
    <3>2. QED BY <1>6, <3>1 DEF HeadIsHeld, TightTail
  <2>2. CASE stream[c] # <<>>
    <3>1. s[1] = stream[c][1]
      BY <1>1, <1>4, <2>2, EmptySeq
    <3>2. HeadIsHeld(stream[c], clientMessage)
      BY DEF HalvesInv
    <3>3. QED BY <2>2, <3>1, <3>2 DEF HeadIsHeld
  <2>3. QED BY <2>1, <2>2
<1>9. HeldBefore(c, written[c] + 1, s, clientMessage)
  <2> DEFINE m == clientMessage
             w == written[c]
             old == stream[c]
  <2>1. \A k \in 1 .. Len(s) : \/ k \in 1 .. Len(old) /\ s[k] = old[k]
                               \/ s[k].id = w + 1
    <3> SUFFICES ASSUME NEW k \in 1 .. Len(s), k \notin 1 .. Len(old)
                 PROVE  s[k].id = w + 1
      BY <1>4
    <3>1. k - Len(old) \in 1 .. Len(new) /\ Len(old) + (k - Len(old)) = k
      <4>1. Len(new) \in Nat
        BY <1>3
      <4>2. QED BY <1>1, <1>4, <4>1
    <3>2. s[k] = new[k - Len(old)]
      BY <1>4, <3>1
    <3>3. QED BY <1>3, <3>1, <3>2
  <2>2. HeldBefore(c, w, old, m) /\ w \in Nat /\ m \in Seq(Piece)
    BY <1>1 DEF HalvesInv
  <2> HIDE DEF m, w, old
  <2>3. ASSUME NEW i \in 1 .. Len(m), m[i].owner = c
        PROVE  /\ m[i].id <= w + 1
               /\ \A k \in 1 .. Len(s) : /\ m[i].id <= s[k].id
                                         /\ m[i].part # "head" => m[i].id < s[k].id
    <3>1. m[i].id \in Nat
      <4>1. m[i] \in Piece
        BY <2>2, ElementOfSeq
      <4>2. QED BY <4>1 DEF Piece
    <3>2. m[i].id <= w /\ \A k \in 1 .. Len(old) :
             m[i].id <= old[k].id /\ (m[i].part # "head" => m[i].id < old[k].id)
      BY <2>2, <2>3 DEF HeldBefore
    <3>3. m[i].id <= w + 1 /\ m[i].id < w + 1
      BY <2>2, <3>1, <3>2
    <3>4. QED BY <2>1, <3>1, <3>2, <3>3
  <2>4. HeldBefore(c, w + 1, s, m)
    BY <2>3 DEF HeldBefore
  <2>5. QED BY <2>4 DEF m, w
<1>10. QED BY <1>5, <1>7, <1>8, <1>9 DEF HalvesInv

(* No half of a tight message is ever parted from the other but by reading *)
(* the two of them in order.                                               *)
LEMMA HalvesInvariant == Spec => []HalvesInv
<1>1. Init => HalvesInv
  <2> SUFFICES ASSUME Init PROVE HalvesInv
    OBVIOUS
  <2>1. clientMessage = <<>> /\ \A c \in Connections : stream[c] = <<>>
    BY DEF Init
  <2>2. 1 .. Len(<<>>) = {}
    OBVIOUS
  <2>3. QED BY <2>1, <2>2
            DEF HalvesInv, TailFollowsHead, HeadIsHeld, HeldBefore, TailsHaveHeads
<1>2. TypeOK /\ OrderInv /\ HalvesInv /\ [Next]_vars => HalvesInv'
  <2> SUFFICES ASSUME TypeOK, OrderInv, HalvesInv, [Next]_vars PROVE HalvesInv'
    OBVIOUS
  <2>1. ASSUME NEW c \in Connections, Connect(c) PROVE HalvesInv'
    BY <2>1 DEF Connect, HalvesInv
  <2>2. ASSUME NEW c \in Connections, Write(c) PROVE HalvesInv'
    BY <2>2, WriteKeepsHalves
  <2>3. ASSUME NEW c \in Connections, ProcessIncomingMessage(c) PROVE HalvesInv'
    BY <2>3, ReadKeepsHalves
  <2>4. ASSUME NEW c \in Connections, Disconnect(c) PROVE HalvesInv'
    <3>1. /\ stream' = [stream EXCEPT ![c] = <<>>]
          /\ clientMessage' = clientMessage /\ written' = written
      BY <2>4 DEF Disconnect
    <3>2. \A d \in Connections : stream'[d] = <<>> \/ stream'[d] = stream[d]
      BY <3>1 DEF TypeOK
    <3>3. 1 .. Len(<<>>) = {}
      OBVIOUS
    <3>4. \A d \in Connections : TailFollowsHead(d, stream'[d])
      BY <3>2, <3>3 DEF HalvesInv, TailFollowsHead
    <3>5. \A d \in Connections : HeadIsHeld(stream'[d], clientMessage)
      BY <3>2 DEF HalvesInv, HeadIsHeld
    <3>6. \A d \in Connections : HeldBefore(d, written[d], stream'[d], clientMessage)
      BY <3>2, <3>3 DEF HalvesInv, HeldBefore
    <3>7. QED BY <3>1, <3>4, <3>5, <3>6 DEF HalvesInv
  <2>5. CASE UNCHANGED vars
    BY <2>5 DEF vars, HalvesInv
  <2>6. QED BY <2>1, <2>2, <2>3, <2>4, <2>5 DEF Next
<1>3. QED BY <1>1, <1>2, TypeCorrect, OrderInvariant, PTL DEF Spec

(* A piece whose cut splits no character is never spoilt, not on the wire, *)
(* not by FromUtf8 and not in the shared string.                           *)
SpoiltOnlyInside(text) ==
    \A i \in 1 .. Len(text) : ~ text[i].cut.splits => text[i].intact

WholeInv ==
    /\ SpoiltOnlyInside(clientMessage)
    /\ ReturnedWhole

(* A document without a loose piece is one message of whoever ends it.     *)
LEMMA WholeDocument ==
  ASSUME NEW c \in Connections, NEW text \in Seq(Piece), IsDocument(text),
         TailsHaveHeads(text), SpoiltOnlyInside(text), text[Len(text)].owner = c
  PROVE  \/ OneMessage(c, text)
         \/ \E i \in DOMAIN text : Loose(text[i])
<1> SUFFICES ASSUME \A i \in DOMAIN text : ~ Loose(text[i])
             PROVE  OneMessage(c, text)
  OBVIOUS
<1>1. /\ Len(text) \in Nat /\ DOMAIN text = 1 .. Len(text)
      /\ \A i \in 1 .. Len(text) : text[i] \in Piece /\ ~ Loose(text[i])
  BY ElementOfSeq, LenProperties
<1>2. PICK k \in 0 .. Len(text) :
        /\ k < Len(text) - k
        /\ \A i \in 1 .. k : AwaitsValue(text[i])
        /\ IsObject(text, k + 1, Len(text) - k)
  BY DEF IsDocument
<1>3. k = 0 /\ Len(text) >= 1
  <2>1. k # 0 => 1 \in 1 .. k /\ 1 \in 1 .. Len(text)
    BY <1>1, <1>2
  <2>2. k = 0
    BY <1>1, <1>2, <2>1 DEF AwaitsValue, Loose
  <2>3. QED BY <1>1, <1>2, <2>2
<1>4. IsObject(text, 1, Len(text))
  <2>1. k + 1 = 1 /\ Len(text) - k = Len(text)
    BY <1>1, <1>3
  <2>2. QED BY <1>2, <2>1
<1>5. \A i \in 1 .. Len(text) : text[i].cut.splits \/ text[i].intact
  BY DEF SpoiltOnlyInside
<1>6. CASE Len(text) = 1 /\ text[1].part = "all"
  <2>1. \A i \in 1 .. Len(text) : i = Len(text)
    BY <1>6
  <2>2. QED BY <1>1, <1>5, <1>6, <2>1 DEF OneMessage, MessageOf
<1>7. CASE /\ 1 < Len(text) /\ Fits(text[1], text[Len(text)])
           /\ \A m \in 2 .. Len(text) - 1 : OpensWord(text[1]) /\ Quoteless(text[m])
  <2>1. TightHead(text[1])
    <3>1. <<text[1].cut.ends, text[Len(text)].cut.starts>>
             \in Adjacent \cup {<<"brace", "close">>}
      BY <1>7 DEF Fits
    <3>2. \A pair \in Adjacent \cup {<<"brace", "close">>} :
            pair[1] \in {"key", "afterKey", "text",
                         "brace", "comma", "colon", "number", "value"}
      BY DEF Adjacent
    <3>3. text[1].cut.ends \in {"key", "afterKey", "text",
                                "brace", "comma", "colon", "number", "value"}
      BY <3>1, <3>2
    <3>4. 1 \in 1 .. Len(text)
      BY <1>1, <1>7
    <3>5. QED BY <1>1, <1>7, <3>3, <3>4 DEF TightHead, Tight, Loose, Fits
  <2>2. ASSUME NEW i \in 1 .. Len(text), TightTail(text[i])
        PROVE  HeadOf(text[1], text[i])
    <3>1. PICK j \in 1 .. Len(text) : HeadOf(text[j], text[i])
      BY <2>2 DEF TailsHaveHeads
    <3>2. TightHead(text[j])
      BY <2>2, <3>1 DEF TightHead, TightTail, Tight, HeadOf
    <3>3. 1 \in 1 .. Len(text)
      BY <1>1, <1>7
    <3>4. j = 1
      BY <2>1, <3>2, <3>3, TightInDocument
    <3>5. QED BY <3>1, <3>4
  <2>3. Len(text) \in 1 .. Len(text) /\ 1 \in 1 .. Len(text)
    BY <1>1, <1>7
  <2>4. TightTail(text[Len(text)])
    <3>1. text[1] \in Piece /\ text[Len(text)] \in Piece
      BY <1>1, <2>3
    <3>2. QED BY <1>7, <2>1, <3>1, TightFits DEF TightTail, TightHead, Fits
  <2>5. HeadOf(text[1], text[Len(text)])
    BY <2>2, <2>3, <2>4
  <2>6. Len(text) = 2
    <3> SUFFICES ASSUME Len(text) > 2 PROVE FALSE
      BY <1>1, <1>7
    <3>1. 2 \in 2 .. Len(text) - 1 /\ 2 \in 1 .. Len(text)
      BY <1>1
    <3>2. OpensWord(text[1]) /\ Quoteless(text[2]) /\ text[2] \in Piece /\ ~ Loose(text[2])
      BY <1>1, <1>7, <3>1
    <3>3. text[2].part = "tail" /\ text[2].cut.plain
      BY <3>2 DEF Quoteless, Loose
    <3>4. text[2].cut.ends = "afterKey"
      <4>1. text[2].cut \in AllCuts
        BY <3>2, <3>3 DEF Piece, Uncut
      <4>2. /\ <<text[2].cut.ends, text[2].cut.starts>> \in Adjacent
            /\ text[2].cut.starts \in {"colon", "digits", "close"}
        BY <3>3, <4>1 DEF AllCuts
      <4>3. \A pair \in Adjacent :
              pair[2] \in {"colon", "digits", "close"} =>
                pair[1] \in {"afterKey", "colon", "number", "value"}
        BY DEF Adjacent
      <4>4. text[2].cut.ends \in {"afterKey", "colon", "number", "value"}
        BY <4>2, <4>3
      <4>5. QED BY <3>2, <4>4 DEF Loose
    <3>5. HeadOf(text[1], text[2])
      BY <2>2, <3>1, <3>3, <3>4 DEF TightTail, Tight
    <3>6. QED BY <3>2, <3>4, <3>5 DEF HeadOf, OpensWord
  <2>7. \A i \in 1 .. Len(text) : i = 1 \/ i = 2
    BY <2>6
  <2>8. /\ text[1].owner = c /\ text[2].owner = c /\ text[1].id = text[2].id
        /\ text[1].part = "head" /\ text[2].part = "tail"
    BY <2>4, <2>5, <2>6 DEF HeadOf, TightTail
  <2>9. QED BY <1>1, <1>5, <2>6, <2>7, <2>8 DEF OneMessage, MessageOf
<1>8. QED BY <1>4, <1>6, <1>7 DEF IsObject

LEMMA ReadKeepsWhole ==
  ASSUME TypeOK, HalvesInv, WholeInv, NEW c \in Connections, ProcessIncomingMessage(c)
  PROVE  SpoiltOnlyInside(clientMessage)' /\ ReturnedWhole'
<1>1. /\ TypeOK /\ TailFollowsHead(c, stream[c])
      /\ HeadIsHeld(stream[c], clientMessage) /\ TailsHaveHeads(clientMessage)
      /\ SpoiltOnlyInside(clientMessage) /\ ReturnedWhole
  BY DEF WholeInv, HalvesInv
<1>2. PICK n \in 1 .. Len(stream[c]), text \in Seq(Piece), rest \in Seq(Piece) :
        /\ ReadOnto(text, clientMessage, stream[c], n)
        /\ \A d \in Connections : d # c => returned'[d] = returned[d]
        /\ \/ /\ IsDocument(text)
              /\ clientMessage' = <<>>
              /\ returned'[c] = Append(returned[c], text)
           \/ clientMessage' = text /\ returned' = returned
  BY <1>1, ReadStep
<1>3. /\ stream[c] \in Seq(Piece) /\ clientMessage \in Seq(Piece)
      /\ returned[c] \in Seq(Seq(Piece))
      /\ Len(stream[c]) \in Nat /\ Len(clientMessage) \in Nat
      /\ Len(returned[c]) \in Nat /\ DOMAIN returned[c] = 1 .. Len(returned[c])
  BY <1>1, LenProperties DEF TypeOK
<1>4. SpoiltOnlyInside(text)
  <2> SUFFICES ASSUME NEW i \in 1 .. Len(text), ~ text[i].cut.splits
               PROVE  text[i].intact
    BY DEF SpoiltOnlyInside
  <2>1. CASE i \in 1 .. Len(clientMessage)
    BY <1>1, <1>2, <2>1 DEF SpoiltOnlyInside, ReadOnto
  <2>2. CASE i \notin 1 .. Len(clientMessage)
    <3> DEFINE j == i - Len(clientMessage)
    <3>1. j \in 1 .. n /\ Len(clientMessage) + j = i
      BY <1>2, <1>3, <2>2 DEF ReadOnto
    <3> HIDE DEF j
    <3>2. QED BY <1>2, <3>1 DEF ReadOnto
  <2>3. QED BY <2>1, <2>2
<1>5. CASE /\ IsDocument(text)
           /\ clientMessage' = <<>>
           /\ returned'[c] = Append(returned[c], text)
  <2>1. SpoiltOnlyInside(<<>>)
    <3>1. 1 .. Len(<<>>) = {}
      OBVIOUS
    <3>2. QED BY <3>1 DEF SpoiltOnlyInside
  <2> DEFINE docs == Append(returned[c], text)
  <2>2. /\ DOMAIN docs = 1 .. Len(returned[c]) + 1
        /\ \A k \in 1 .. Len(returned[c]) : docs[k] = returned[c][k]
        /\ docs[Len(returned[c]) + 1] = text
    <3>1. docs \in Seq(Seq(Piece)) /\ Len(docs) = Len(returned[c]) + 1
      BY <1>3, AppendProperties
    <3>2. QED BY <1>3, <3>1, AppendProperties, LenProperties
  <2> HIDE DEF docs
  <2>3. \/ OneMessage(c, text)
        \/ \E i \in DOMAIN text : Loose(text[i])
    <3>1. TailsHaveHeads(text)
      BY <1>1, <1>2, <1>3, TextHasHeads
    <3>2. text[Len(text)].owner = c
      <4>1. n \in 1 .. n /\ Len(text) = Len(clientMessage) + n
        BY <1>2, <1>3 DEF ReadOnto
      <4>2. text[Len(text)].owner = stream[c][n].owner
        BY <1>2, <4>1 DEF ReadOnto
      <4>3. QED BY <1>1, <4>2 DEF TailFollowsHead
    <3>3. QED BY <1>4, <1>5, <3>1, <3>2, WholeDocument, Zenon
  <2>4. ASSUME NEW k \in DOMAIN docs
        PROVE  \/ OneMessage(c, docs[k])
               \/ \E i \in DOMAIN docs[k] : Loose(docs[k][i])
    <3>1. k \in 1 .. Len(returned[c]) \/ k = Len(returned[c]) + 1
      <4>1. \A l \in Nat : \A i \in 1 .. l + 1 : i \in 1 .. l \/ i = l + 1
        OBVIOUS
      <4>2. QED BY <1>3, <2>2, <4>1, Zenon
    <3>2. CASE k = Len(returned[c]) + 1
      <4>1. docs[k] = text
        BY <2>2, <3>2
      <4>2. QED BY <2>3, <4>1, Zenon
    <3>3. CASE k \in 1 .. Len(returned[c])
      BY <1>1, <1>3, <2>2, <3>3 DEF ReturnedWhole
    <3>4. QED BY <3>1, <3>2, <3>3
  <2>5. ReturnedWhole'
    <3> SUFFICES ASSUME NEW d \in Connections, NEW k \in DOMAIN returned'[d]
                 PROVE  \/ OneMessage(d, returned'[d][k])
                        \/ \E i \in DOMAIN returned'[d][k] : Loose(returned'[d][k][i])
      BY DEF ReturnedWhole, OneMessage, MessageOf, Loose
    <3>1. CASE d = c
      BY <1>5, <2>4, <3>1 DEF docs
    <3>2. CASE d # c
      BY <1>1, <1>2, <3>2 DEF ReturnedWhole
    <3>3. QED BY <3>1, <3>2
  <2>6. QED BY <1>5, <2>1, <2>5 DEF SpoiltOnlyInside
<1>6. CASE clientMessage' = text /\ returned' = returned
  BY <1>1, <1>4, <1>6 DEF SpoiltOnlyInside, ReturnedWhole, OneMessage, MessageOf, Loose
<1>7. QED BY <1>2, <1>5, <1>6

(* A document none of whose pieces has a loose cut is one message of its   *)
(* client, for any number of clients, any cuts, pipelining or not          *)
(* (client_connection.cpp:91-104).                                         *)
THEOREM DocumentsAreWhole == Spec => []ReturnedWhole
<1>1. Init => SpoiltOnlyInside(clientMessage) /\ ReturnedWhole
  <2>1. 1 .. Len(<<>>) = {} /\ DOMAIN <<>> = {}
    OBVIOUS
  <2>2. SpoiltOnlyInside(<<>>)
    BY <2>1 DEF SpoiltOnlyInside
  <2>3. Init => \A c \in Connections : returned[c] = <<>>
    BY DEF Init
  <2>4. QED BY <2>1, <2>2, <2>3 DEF Init, ReturnedWhole
<1>2. TypeOK /\ HalvesInv /\ WholeInv /\ [Next]_vars
        => SpoiltOnlyInside(clientMessage)' /\ ReturnedWhole'
  <2> SUFFICES ASSUME TypeOK, HalvesInv, WholeInv, [Next]_vars
               PROVE  SpoiltOnlyInside(clientMessage)' /\ ReturnedWhole'
    OBVIOUS
  <2>1. ASSUME NEW c \in Connections, ProcessIncomingMessage(c)
        PROVE  SpoiltOnlyInside(clientMessage)' /\ ReturnedWhole'
    BY <2>1, ReadKeepsWhole
  <2>2. CASE UNCHANGED <<clientMessage, returned>>
    BY <2>2 DEF WholeInv, SpoiltOnlyInside, ReturnedWhole, OneMessage, MessageOf, Loose
  <2>3. QED BY <2>1, <2>2 DEF Next, Connect, Write, Disconnect, vars
<1>3. QED BY <1>1, <1>2, TypeCorrect, HalvesInvariant, PTL DEF Spec, WholeInv

-----------------------------------------------------------------------------
(* Taking turns.  ReadMessageIsReturned fails when clients interleave or   *)
(* pipeline.  It holds as long as a message that may be cut is the only    *)
(* one on its way.  Inductive is what each connection may then look like:  *)
(* everything read and processed; one message written and not yet read; or *)
(* its head in the shared string, alone there, and its tail still to come. *)
(* Outside the last case the shared string is empty, unless nobody is left *)
(* to read into it.                                                        *)
NothingSplits == \A cut \in Cuts : ~ cut.splits

Between(c) == stream[c] = <<>> /\ Len(returned[c]) = written[c]

Arriving(c, cut) ==
    stream[c] = Fragments(c, written[c], cut) /\ Len(returned[c]) + 1 = written[c]

Alone(c) ==
    \A d \in Connections : d = c \/ phase[d] = "gone" \/ stream[d] = <<>>

Halfway(c, cut) ==
    /\ stream[c] = <<Fragments(c, written[c], cut)[2]>>
    /\ Len(returned[c]) + 1 = written[c]
    /\ Len(clientMessage) = 1
    /\ clientMessage[1].part = "head" /\ clientMessage[1].cut = cut
    /\ clientMessage[1].owner = c /\ clientMessage[1].id = written[c]
    /\ NothingSplits => clientMessage[1].intact
    /\ Alone(c)

TakesTurns(c) ==
    \/ Between(c)
    \/ Arriving(c, Uncut)
    \/ \E cut \in Cuts : (Arriving(c, cut) /\ Alone(c)) \/ Halfway(c, cut)

Numbered(c, docs) ==
    \A k \in 1 .. Len(docs) : /\ MessageOf(docs[k]) = k
                              /\ NothingSplits => SameText(c, docs[k])

TurnInv ==
    /\ \A c \in Connections : Numbered(c, returned[c])
    /\ \A c \in Connections : phase[c] = "gone" \/ TakesTurns(c)
    /\ \/ clientMessage = <<>>
       \/ \E c \in Connections, cut \in Cuts : phase[c] # "gone" /\ Halfway(c, cut)
       \/ \A c \in Connections : phase[c] = "gone"

(* Only the documents of a client decide whether they are numbered.        *)
LEMMA NumberedAfter ==
  \A c \in Connections : Numbered(c, returned'[c]) <=> Numbered(c, returned[c])'
<1> SUFFICES ASSUME NEW c \in Connections
             PROVE  Numbered(c, returned'[c]) <=> Numbered(c, returned[c])'
  OBVIOUS
<1>1. QED BY Zenon DEF Numbered, NothingSplits, MessageOf, SameText, OneMessage

(* A client of which nothing waits to be read has had everything processed.*)
LEMMA NothingWaits ==
  ASSUME TypeOK, NEW c \in Connections, TakesTurns(c), stream[c] = <<>>
  PROVE  Between(c)
<1>1. written[c] \in Nat /\ Len(returned[c]) \in Nat
  BY BoundAssumption, LenProperties DEF TypeOK
<1>2. ASSUME NEW cut \in Cuts \cup {Uncut}, Arriving(c, cut)
      PROVE  FALSE
  <2>1. written[c] \in Nat \ {0} /\ cut \in AllCuts \cup {Uncut}
    BY <1>1, <1>2, CutsAssumption DEF Arriving
  <2>2. Len(Fragments(c, written[c], cut)) \in {1, 2}
    BY <2>1, FragmentsShape
  <2>3. Len(stream[c]) = 0
    OBVIOUS
  <2>4. stream[c] = Fragments(c, written[c], cut)
    BY <1>2 DEF Arriving
  <2>5. Len(stream[c]) \in {1, 2}
    BY <2>2, <2>4, Zenon
  <2>6. QED BY <2>3, <2>5
<1>3. ASSUME NEW cut \in Cuts, Halfway(c, cut)
      PROVE  FALSE
  <2>1. <<Fragments(c, written[c], cut)[2]>> # <<>>
    OBVIOUS
  <2>2. QED BY <1>3, <2>1 DEF Halfway
<1>4. QED BY <1>2, <1>3 DEF TakesTurns

(* A head and its tail together are a document.                            *)
LEMMA PairIsDocument ==
  ASSUME NEW text \in Seq(Piece), NEW cut \in Cuts, Len(text) = 2,
         text[1].part = "head", text[2].part = "tail",
         text[1].cut = cut, text[2].cut = cut
  PROVE  IsDocument(text)
<1>1. Fits(text[1], text[2])
  <2>1. <<cut.ends, cut.starts>> \in Adjacent
    BY CutsAssumption DEF AllCuts
  <2>2. QED BY <2>1 DEF Fits
<1>2. IsObject(text, 1, 2)
  BY <1>1 DEF IsObject
<1>3. /\ 0 \in 0 .. Len(text) /\ 0 < Len(text) - 0
      /\ 0 + 1 = 1 /\ Len(text) - 0 = 2
      /\ 1 .. 0 = {} /\ Len(text) - 0 + 1 .. Len(text) = {}
  OBVIOUS
<1>4. QED BY <1>2, <1>3 DEF IsDocument

(* So is a whole message, and a head alone is not.                         *)
LEMMA SingleIsDocument ==
  ASSUME NEW text \in Seq(Piece), Len(text) = 1
  PROVE  IsDocument(text) <=> text[1].part = "all"
<1>1. /\ 0 \in 0 .. Len(text) /\ 0 < Len(text) - 0
      /\ 0 + 1 = 1 /\ Len(text) - 0 = 1
      /\ 1 .. 0 = {} /\ Len(text) - 0 + 1 .. Len(text) = {}
  OBVIOUS
<1>2. ASSUME text[1].part = "all" PROVE IsDocument(text)
  <2>1. IsObject(text, 1, 1)
    BY <1>2 DEF IsObject
  <2>2. QED BY <1>1, <2>1 DEF IsDocument
<1>3. ASSUME IsDocument(text) PROVE text[1].part = "all"
  <2>1. PICK k \in 0 .. Len(text) :
          k < Len(text) - k /\ IsObject(text, k + 1, Len(text) - k)
    BY <1>3 DEF IsDocument
  <2>2. k + 1 = 1 /\ Len(text) - k = 1
    BY <2>1
  <2>3. IsObject(text, 1, 1)
    BY <2>1, <2>2
  <2>4. QED BY <2>3 DEF IsObject
<1>4. QED BY <1>2, <1>3

(* A document that ends message number written[c] is the next in order.    *)
LEMMA NextNumber ==
  ASSUME NEW c, NEW docs \in Seq(Seq(Piece)), NEW text \in Seq(Piece),
         Numbered(c, docs),
         MessageOf(text) = Len(docs) + 1, NothingSplits => SameText(c, text)
  PROVE  Numbered(c, Append(docs, text)) /\ Len(Append(docs, text)) = Len(docs) + 1
<1>1. /\ Len(docs) \in Nat /\ Len(Append(docs, text)) = Len(docs) + 1
      /\ \A k \in 1 .. Len(docs) : Append(docs, text)[k] = docs[k]
      /\ Append(docs, text)[Len(docs) + 1] = text
  BY AppendProperties, LenProperties
<1>2. \A l \in Nat : \A k \in 1 .. l + 1 : k \in 1 .. l \/ k = l + 1
  OBVIOUS
<1>3. \A k \in 1 .. Len(Append(docs, text)) : k \in 1 .. Len(docs) \/ k = Len(docs) + 1
  BY <1>1, <1>2, Zenon
<1>4. QED BY <1>1, <1>3, Zenon DEF Numbered

HeadAlone(c, text, cut) ==
    /\ Len(text) = 1 /\ text[1].part = "head" /\ text[1].cut = cut
    /\ text[1].owner = c /\ text[1].id = written[c]
    /\ NothingSplits => text[1].intact

(* One message of a client, in one piece or in two, is its own text.       *)
LEMMA OneIsItself ==
  ASSUME NEW c, NEW w, NEW text \in Seq(Piece),
         \/ Len(text) = 1 /\ text[1].part = "all"
         \/ Len(text) = 2 /\ text[1].part = "head" /\ text[2].part = "tail",
         \A i \in 1 .. Len(text) :
            text[i].owner = c /\ text[i].id = w /\ text[i].intact
  PROVE  SameText(c, text)
<1>1. DOMAIN text = 1 .. Len(text) /\ Len(text) \in 1 .. Len(text)
  BY LenProperties
<1>2. QED BY <1>1 DEF SameText, OneMessage, MessageOf

(* What a turn-taking client can be read: the whole of its message, or the *)
(* head of it, or the tail to a head that is all the shared string holds.  *)
LEMMA ReadInTurn ==
  ASSUME TypeOK, TurnInv, NEW c \in Connections, phase[c] = "open",
         NEW n \in 1 .. Len(stream[c]), NEW text,
         ReadOnto(text, clientMessage, stream[c], n)
  PROVE  /\ written[c] \in Nat /\ Len(returned[c]) + 1 = written[c]
         /\ \/ /\ IsDocument(text) /\ n = Len(stream[c])
               /\ MessageOf(text) = written[c]
               /\ NothingSplits => SameText(c, text)
               /\ clientMessage = <<>> \/ Alone(c)
            \/ /\ ~ IsDocument(text) /\ n = 1 /\ Len(stream[c]) = 2 /\ Alone(c)
               /\ \E cut \in Cuts :
                    /\ stream[c] = Fragments(c, written[c], cut)
                    /\ HeadAlone(c, text, cut)
<1>1. /\ stream[c] \in Seq(Piece) /\ clientMessage \in Seq(Piece)
      /\ text \in Seq(Piece) /\ Len(stream[c]) \in Nat /\ written[c] \in Nat
      /\ n \in Nat /\ n >= 1 /\ n <= Len(stream[c])
      /\ Len(clientMessage) \in Nat /\ Len(text) = Len(clientMessage) + n
  BY BoundAssumption, LenProperties DEF TypeOK, ReadOnto
<1>2. stream[c] # <<>>
  BY <1>1, EmptySeq
<1>3. /\ TakesTurns(c)
      /\ \/ clientMessage = <<>>
         \/ \E d \in Connections, cut \in Cuts : phase[d] # "gone" /\ Halfway(d, cut)
  BY DEF TurnInv
<1>4. ASSUME NEW cut \in Cuts, Halfway(c, cut)
      PROVE  /\ Len(returned[c]) + 1 = written[c] /\ IsDocument(text)
             /\ n = Len(stream[c]) /\ MessageOf(text) = written[c] /\ Alone(c)
             /\ NothingSplits => SameText(c, text)
  <2>1. /\ Len(returned[c]) + 1 = written[c] /\ Alone(c)
        /\ stream[c] = <<Fragments(c, written[c], cut)[2]>>
        /\ Len(clientMessage) = 1
        /\ clientMessage[1].part = "head" /\ clientMessage[1].cut = cut
        /\ clientMessage[1].owner = c /\ clientMessage[1].id = written[c]
        /\ NothingSplits => clientMessage[1].intact
    BY <1>4 DEF Halfway
  <2>2. /\ written[c] \in Nat \ {0} /\ cut \in AllCuts \cup {Uncut}
        /\ cut # Uncut
    <3>1. returned[c] \in Seq(Seq(Piece)) /\ Len(returned[c]) \in Nat
      BY LenProperties DEF TypeOK
    <3>2. QED BY <1>1, <2>1, <3>1, CutsAssumption, UncutIsNoCut
  <2>3. /\ Len(Fragments(c, written[c], cut)) = 2
        /\ Fragments(c, written[c], cut)[2].part = "tail"
        /\ Fragments(c, written[c], cut)[2].cut = cut
        /\ Fragments(c, written[c], cut)[2].id = written[c]
        /\ Fragments(c, written[c], cut)[2].owner = c
    BY <2>2, FragmentsShape
  <2>4. /\ Len(stream[c]) = 1 /\ stream[c][1].part = "tail"
        /\ stream[c][1].cut = cut /\ stream[c][1].id = written[c]
        /\ stream[c][1].owner = c
    <3> DEFINE piece == Fragments(c, written[c], cut)[2]
    <3> HIDE DEF piece
    <3>1. Len(<<piece>>) = 1 /\ <<piece>>[1] = piece
      OBVIOUS
    <3>2. QED BY <2>1, <2>3, <3>1 DEF piece
  <2>5. n = 1
    BY <1>1, <2>4
  <2>6. /\ Len(text) = 2 /\ text[1].part = "head" /\ text[1].cut = cut
        /\ text[2].part = "tail" /\ text[2].cut = cut
    BY <1>1, <2>1, <2>4, <2>5 DEF ReadOnto
  <2>7. IsDocument(text)
    BY <1>1, <2>6, PairIsDocument
  <2>8. MessageOf(text) = written[c]
    BY <1>1, <2>4, <2>5, <2>7, DocumentEndsAMessage
  <2>9. NothingSplits => SameText(c, text)
    <3> SUFFICES ASSUME NothingSplits PROVE SameText(c, text)
      OBVIOUS
    <3>1. /\ text[1].owner = c /\ text[1].id = written[c] /\ text[1].intact
          /\ text[2].owner = c /\ text[2].id = written[c] /\ text[2].intact
      BY <1>1, <2>1, <2>4, <2>5 DEF ReadOnto, NothingSplits
    <3>2. \A i \in 1 .. Len(text) : i = 1 \/ i = 2
      BY <2>6
    <3>3. QED BY <1>1, <2>6, <3>1, <3>2, OneIsItself
  <2>10. QED BY <2>1, <2>4, <2>5, <2>7, <2>8, <2>9
<1>5. CASE clientMessage = <<>> /\ Arriving(c, Uncut)
  <2>1. Len(clientMessage) = 0
    BY <1>5
  <2>2. stream[c] = Fragments(c, written[c], Uncut) /\ Len(returned[c]) + 1 = written[c]
    BY <1>5 DEF Arriving
  <2>3. /\ Len(stream[c]) = 1 /\ stream[c][1].part = "all" /\ stream[c][1].id = written[c]
        /\ stream[c][1].owner = c /\ ~ stream[c][1].cut.splits
    <3>1. written[c] \in Nat \ {0}
      <4>1. returned[c] \in Seq(Seq(Piece)) /\ Len(returned[c]) \in Nat
        BY LenProperties DEF TypeOK
      <4>2. QED BY <1>1, <2>2, <4>1
    <3>2. ~ Uncut.splits
      BY DEF Uncut
    <3>3. QED BY <2>2, <3>1, <3>2, FragmentsShape
  <2>4. n = 1
    BY <1>1, <2>3
  <2>5. /\ Len(text) = 1 /\ text[1].part = "all" /\ text[1].intact
        /\ text[1].owner = c /\ text[1].id = written[c]
    BY <1>1, <2>1, <2>3, <2>4 DEF ReadOnto
  <2>6. IsDocument(text)
    BY <1>1, <2>5, SingleIsDocument
  <2>7. MessageOf(text) = written[c]
    BY <1>1, <2>3, <2>4, <2>6, DocumentEndsAMessage
  <2>8. SameText(c, text)
    <3>1. \A i \in 1 .. Len(text) : i = 1
      BY <2>5
    <3>2. QED BY <1>1, <2>5, <3>1, OneIsItself
  <2>9. QED BY <1>1, <1>5, <2>2, <2>3, <2>4, <2>6, <2>7, <2>8
<1>6. ASSUME NEW cut \in Cuts, clientMessage = <<>>, Arriving(c, cut), Alone(c)
      PROVE  /\ Len(returned[c]) + 1 = written[c]
             /\ \/ /\ IsDocument(text) /\ n = Len(stream[c])
                   /\ MessageOf(text) = written[c]
                   /\ NothingSplits => SameText(c, text)
                \/ /\ ~ IsDocument(text) /\ n = 1 /\ Len(stream[c]) = 2
                   /\ stream[c] = Fragments(c, written[c], cut)
                   /\ HeadAlone(c, text, cut)
  <2>1. Len(clientMessage) = 0
    BY <1>6
  <2>2. stream[c] = Fragments(c, written[c], cut) /\ Len(returned[c]) + 1 = written[c]
    BY <1>6 DEF Arriving
  <2>3. /\ written[c] \in Nat \ {0} /\ cut \in AllCuts \cup {Uncut}
        /\ cut # Uncut
    <3>1. returned[c] \in Seq(Seq(Piece)) /\ Len(returned[c]) \in Nat
      BY LenProperties DEF TypeOK
    <3>2. QED BY <1>1, <2>2, <3>1, CutsAssumption, UncutIsNoCut
  <2>4. /\ Len(stream[c]) = 2
        /\ stream[c][1].part = "head" /\ stream[c][2].part = "tail"
        /\ stream[c][1].cut = cut /\ stream[c][2].cut = cut
        /\ stream[c][1].id = written[c] /\ stream[c][2].id = written[c]
        /\ stream[c][1].owner = c /\ stream[c][2].owner = c
    BY <2>2, <2>3, FragmentsShape
  <2>5. CASE n = 1
    <3>1. HeadAlone(c, text, cut)
      BY <1>1, <2>1, <2>4, <2>5 DEF ReadOnto, HeadAlone, NothingSplits
    <3>2. ~ IsDocument(text)
      BY <1>1, <3>1, SingleIsDocument DEF HeadAlone
    <3>3. QED BY <2>2, <2>4, <2>5, <3>1, <3>2
  <2>6. CASE n = 2
    <3>1. /\ Len(text) = 2 /\ text[1].part = "head" /\ text[1].cut = cut
          /\ text[2].part = "tail" /\ text[2].cut = cut
      BY <1>1, <2>1, <2>4, <2>6 DEF ReadOnto
    <3>2. IsDocument(text)
      BY <1>1, <3>1, PairIsDocument
    <3>3. MessageOf(text) = written[c]
      BY <1>1, <2>4, <2>6, <3>2, DocumentEndsAMessage
    <3>4. NothingSplits => SameText(c, text)
      <4> SUFFICES ASSUME NothingSplits PROVE SameText(c, text)
        OBVIOUS
      <4>1. /\ text[1].owner = c /\ text[1].id = written[c] /\ text[1].intact
            /\ text[2].owner = c /\ text[2].id = written[c] /\ text[2].intact
        BY <1>1, <2>1, <2>4, <2>6 DEF ReadOnto, NothingSplits
      <4>2. \A i \in 1 .. Len(text) : i = 1 \/ i = 2
        BY <3>1
      <4>3. QED BY <1>1, <3>1, <4>1, <4>2, OneIsItself
    <3>5. QED BY <2>2, <2>4, <2>6, <3>2, <3>3, <3>4
  <2>7. QED BY <1>1, <2>4, <2>5, <2>6
<1>7. CASE clientMessage = <<>>
  <2>1. ASSUME NEW cut \in Cuts PROVE ~ Halfway(c, cut)
    BY <1>7 DEF Halfway
  <2>2. Arriving(c, Uncut) \/ \E cut \in Cuts : Arriving(c, cut) /\ Alone(c)
    BY <1>2, <1>3, <2>1 DEF TakesTurns, Between
  <2>3. QED BY <1>1, <1>5, <1>6, <1>7, <2>2
<1>8. CASE \E d \in Connections, cut \in Cuts : phase[d] # "gone" /\ Halfway(d, cut)
  <2>1. PICK d \in Connections, cut \in Cuts : phase[d] # "gone" /\ Halfway(d, cut)
    BY <1>8
  <2>2. d = c
    BY <1>2, <2>1 DEF Halfway, Alone
  <2>3. QED BY <1>1, <1>4, <2>1, <2>2
<1>9. QED BY <1>3, <1>7, <1>8

(* Reading keeps to the turns.                                             *)
LEMMA ReadKeepsTurns ==
  ASSUME TypeOK, TurnInv, NEW c \in Connections, ProcessIncomingMessage(c)
  PROVE  TurnInv'
<1>1. PICK n \in 1 .. Len(stream[c]), text \in Seq(Piece), rest \in Seq(Piece) :
        /\ ReadOnto(text, clientMessage, stream[c], n)
        /\ Len(rest) = Len(stream[c]) - n
        /\ \A i \in 1 .. Len(rest) : rest[i] = stream[c][n + i]
        /\ stream'[c] = rest
        /\ \A d \in Connections : d # c => /\ stream'[d] = stream[d]
                                           /\ returned'[d] = returned[d]
        /\ \/ /\ IsDocument(text)
              /\ clientMessage' = <<>>
              /\ returned'[c] = Append(returned[c], text)
           \/ /\ ~ IsDocument(text)
              /\ clientMessage' = text
              /\ returned' = returned
  BY ReadStep
<1>2. phase[c] = "open" /\ phase' = phase /\ written' = written
  BY DEF ProcessIncomingMessage
<1>3. /\ written[c] \in Nat /\ Len(returned[c]) + 1 = written[c]
      /\ \/ /\ IsDocument(text) /\ n = Len(stream[c])
            /\ MessageOf(text) = written[c]
            /\ NothingSplits => SameText(c, text)
            /\ clientMessage = <<>> \/ Alone(c)
         \/ /\ ~ IsDocument(text) /\ n = 1 /\ Len(stream[c]) = 2 /\ Alone(c)
            /\ \E cut \in Cuts :
                 /\ stream[c] = Fragments(c, written[c], cut)
                 /\ HeadAlone(c, text, cut)
  BY <1>1, <1>2, ReadInTurn
<1>4. /\ returned[c] \in Seq(Seq(Piece)) /\ Len(returned[c]) \in Nat
      /\ stream[c] \in Seq(Piece) /\ Len(stream[c]) \in Nat
  BY LenProperties DEF TypeOK
<1>5. /\ \A d \in Connections : Numbered(d, returned[d])
      /\ \A d \in Connections : phase[d] = "gone" \/ TakesTurns(d)
  BY DEF TurnInv
<1>6. \A d \in Connections :
        Alone(c) /\ d # c /\ phase[d] # "gone" => Between(d)
  BY <1>5, NothingWaits DEF Alone
<1>7. CASE IsDocument(text)
  <2>1. /\ clientMessage' = <<>> /\ returned'[c] = Append(returned[c], text)
        /\ n = Len(stream[c]) /\ MessageOf(text) = Len(returned[c]) + 1
        /\ NothingSplits => SameText(c, text)
        /\ clientMessage = <<>> \/ Alone(c)
    BY <1>1, <1>3, <1>7
  <2>2. Numbered(c, returned'[c]) /\ Len(returned'[c]) = written[c]
    BY <1>3, <1>4, <1>5, <2>1, NextNumber
  <2>3. stream'[c] = <<>>
    <3>1. Len(rest) = 0
      BY <1>1, <1>4, <2>1
    <3>2. QED BY <1>1, <3>1, EmptySeq
  <2>4. Between(c)'
    BY <1>2, <2>2, <2>3 DEF Between
  <2>5. ASSUME NEW d \in Connections, d # c, phase[d] # "gone"
        PROVE  TakesTurns(d)'
    <3>1. stream'[d] = stream[d] /\ returned'[d] = returned[d]
      BY <1>1, <2>5
    <3>2. Alone(d) => Alone(d)'
      BY <1>1, <1>2, <2>3 DEF Alone
    <3>3. CASE Between(d)
      BY <1>2, <3>1, <3>3 DEF TakesTurns, Between
    <3>4. CASE Arriving(d, Uncut)
      BY <1>2, <3>1, <3>4 DEF TakesTurns, Arriving, Fragments
    <3>5. CASE clientMessage = <<>> /\ \E cut \in Cuts : Arriving(d, cut) /\ Alone(d)
      BY <1>2, <3>1, <3>2, <3>5 DEF TakesTurns, Arriving, Fragments
    <3>6. CASE clientMessage = <<>> /\ \E cut \in Cuts : Halfway(d, cut)
      BY <3>6 DEF Halfway
    <3>7. CASE Alone(c)
      BY <1>6, <2>5, <3>3, <3>7
    <3>8. QED BY <1>5, <2>1, <2>5, <3>3, <3>4, <3>5, <3>6, <3>7 DEF TakesTurns
  <2>6. \A d \in Connections : Numbered(d, returned'[d])
    BY <1>1, <1>5, <2>2
  <2>7. \A d \in Connections : phase'[d] = "gone" \/ TakesTurns(d)'
    BY <1>2, <2>4, <2>5 DEF TakesTurns
  <2>8. \A d \in Connections : Numbered(d, returned[d])'
    BY <2>6, NumberedAfter
  <2>9. QED BY <2>1, <2>7, <2>8 DEF TurnInv
<1>8. CASE ~ IsDocument(text)
  <2>1. clientMessage' = text /\ returned' = returned /\ n = 1 /\ Alone(c)
    BY <1>1, <1>3, <1>8
  <2>2. PICK cut \in Cuts :
          /\ stream[c] = Fragments(c, written[c], cut)
          /\ HeadAlone(c, text, cut)
    BY <1>3, <1>8
  <2>3. stream'[c] = <<Fragments(c, written[c], cut)[2]>>
    <3>1. Len(rest) = 1 /\ rest[1] = stream[c][2]
      <4>1. n = 1 /\ Len(stream[c]) = 2
        BY <1>3, <1>8
      <4>2. Len(rest) = 1
        BY <1>1, <4>1
      <4>3. 1 \in 1 .. Len(rest) /\ n + 1 = 2
        BY <4>1, <4>2
      <4>4. rest[1] = stream[c][n + 1]
        BY <1>1, <4>3
      <4>5. QED BY <4>2, <4>3, <4>4
    <3> DEFINE piece == Fragments(c, written[c], cut)[2]
    <3>2. rest[1] = piece
      BY <2>2, <3>1
    <3> HIDE DEF piece
    <3>3. rest = <<piece>>
      BY <1>1, <3>1, <3>2
    <3>4. QED BY <1>1, <3>3 DEF piece
  <2>4. Alone(c)'
    BY <1>1, <1>2, <2>1 DEF Alone
  <2>5. Halfway(c, cut)'
    BY <1>2, <1>3, <2>1, <2>2, <2>3, <2>4 DEF Halfway, HeadAlone, Fragments
  <2>6. ASSUME NEW d \in Connections, d # c, phase[d] # "gone"
        PROVE  Between(d)'
    BY <1>1, <1>2, <1>6, <2>1, <2>6 DEF Between
  <2>7. \A d \in Connections : phase'[d] = "gone" \/ TakesTurns(d)'
    BY <1>2, <2>5, <2>6 DEF TakesTurns
  <2>8. \E d \in Connections, k \in Cuts : phase'[d] # "gone" /\ Halfway(d, k)'
    BY <1>2, <2>5
  <2>9. \A d \in Connections : Numbered(d, returned[d])'
    BY <1>5, <2>1, NumberedAfter
  <2>10. QED BY <2>7, <2>8, <2>9 DEF TurnInv
<1>9. QED BY <1>7, <1>8

(* It is a client's turn to write when everything of it was read, and      *)
(* either no message is ever cut or nothing of anybody waits.              *)
LEMMA WriteKeepsTurns ==
  ASSUME TypeOK, TurnInv, NEW c \in Connections, Write(c),
         Len(returned[c]) = written[c] \/ stream[c] = <<>>,
         Cuts = {} \/ Alone(c)
  PROVE  TurnInv'
<1>1. /\ phase[c] = "open" /\ phase' = phase /\ clientMessage' = clientMessage
      /\ returned' = returned /\ written' = [written EXCEPT ![c] = @ + 1]
  BY DEF Write
<1>2. PICK cut \in Cuts \cup {Uncut} :
        stream' = [stream EXCEPT ![c] = @ \o Fragments(c, written[c] + 1, cut)]
  BY DEF Write
<1>3. /\ stream \in [Connections -> Seq(Piece)]
      /\ written \in [Connections -> 0 .. MaxMessages] /\ written[c] \in Nat
      /\ returned[c] \in Seq(Seq(Piece)) /\ Len(returned[c]) \in Nat
  BY BoundAssumption, LenProperties DEF TypeOK
<1>4. /\ \A d \in Connections : Numbered(d, returned[d])
      /\ \A d \in Connections : phase[d] = "gone" \/ TakesTurns(d)
      /\ \/ clientMessage = <<>>
         \/ \E d \in Connections, k \in Cuts : phase[d] # "gone" /\ Halfway(d, k)
  BY <1>1 DEF TurnInv
<1>5. Between(c)
  <2>1. CASE stream[c] = <<>>
    BY <1>1, <1>4, <2>1, NothingWaits
  <2>2. CASE Len(returned[c]) = written[c]
    <3>1. \A k \in Cuts \cup {Uncut} : ~ Arriving(c, k) /\ ~ Halfway(c, k)
      BY <1>3, <2>2 DEF Arriving, Halfway
    <3>2. QED BY <1>1, <1>4, <3>1 DEF TakesTurns
  <2>3. QED BY <2>1, <2>2
<1>6. /\ stream'[c] = Fragments(c, written[c] + 1, cut)
      /\ written'[c] = written[c] + 1
      /\ \A d \in Connections : d # c => /\ stream'[d] = stream[d]
                                         /\ written'[d] = written[d]
  <2> DEFINE new == Fragments(c, written[c] + 1, cut)
  <2>1. new \in Seq(Piece)
    <3>1. cut \in AllCuts \cup {Uncut} /\ written[c] + 1 \in Nat \ {0}
      BY <1>3, CutsAssumption
    <3>2. QED BY <3>1, FragmentsShape
  <2>2. stream[c] \o new = new
    <3>1. stream[c] = <<>>
      BY <1>5 DEF Between
    <3> HIDE DEF new
    <3>2. QED BY <2>1, <3>1, ConcatEmptySeq
  <2> HIDE DEF new
  <2>3. QED BY <1>1, <1>2, <1>3, <2>2 DEF new
<1>7. Arriving(c, cut)'
  BY <1>1, <1>3, <1>5, <1>6 DEF Arriving, Between, Fragments
<1>8. clientMessage' = <<>>
  <2>1. ASSUME NEW d \in Connections, NEW k \in Cuts, phase[d] # "gone", Halfway(d, k)
        PROVE  FALSE
    <3>1. stream[d] # <<>> /\ Alone(c) /\ Alone(d)
      BY <2>1 DEF Halfway
    <3>2. d = c
      BY <2>1, <3>1 DEF Alone
    <3>3. QED BY <1>5, <3>1, <3>2 DEF Between
  <2>2. QED BY <1>1, <1>4, <2>1
<1>9. TakesTurns(c)'
  <2>1. Alone(c) => Alone(c)'
    BY <1>1, <1>6 DEF Alone
  <2>2. QED BY <1>7, <2>1 DEF TakesTurns
<1>10. ASSUME NEW d \in Connections, d # c, phase[d] # "gone"
       PROVE  TakesTurns(d)'
  <2>1. CASE Between(d)
    BY <1>1, <1>6, <1>10, <2>1 DEF TakesTurns, Between
  <2>2. CASE Arriving(d, Uncut)
    BY <1>1, <1>6, <1>10, <2>2 DEF TakesTurns, Arriving, Fragments
  <2>3. CASE Cuts = {}
    BY <1>4, <1>10, <2>1, <2>2, <2>3 DEF TakesTurns
  <2>4. CASE Alone(c)
    BY <1>4, <1>10, <2>1, <2>4, NothingWaits DEF Alone
  <2>5. QED BY <2>3, <2>4
<1>11. \A d \in Connections : Numbered(d, returned[d])'
  BY <1>1, <1>4, NumberedAfter
<1>12. QED BY <1>1, <1>8, <1>9, <1>10, <1>11 DEF TurnInv

(* A client that leaves does no harm if nothing of it waits, if no message *)
(* is ever cut, or if there is nobody else.                                *)
LEMMA DisconnectKeepsTurns ==
  ASSUME TypeOK, TurnInv, NEW c \in Connections, Disconnect(c),
         stream[c] = <<>> \/ Cuts = {} \/ \A d \in Connections : d = c
  PROVE  TurnInv'
<1>1. /\ phase' = [phase EXCEPT ![c] = "gone"] /\ phase[c] = "open"
      /\ stream' = [stream EXCEPT ![c] = <<>>]
      /\ written' = written /\ clientMessage' = clientMessage /\ returned' = returned
  BY DEF Disconnect
<1>2. /\ phase'[c] = "gone" /\ stream'[c] = <<>>
      /\ \A d \in Connections : d # c => /\ phase'[d] = phase[d]
                                         /\ stream'[d] = stream[d]
  BY <1>1 DEF TypeOK
<1>3. /\ \A d \in Connections : Numbered(d, returned[d])
      /\ \A d \in Connections : phase[d] = "gone" \/ TakesTurns(d)
      /\ \/ clientMessage = <<>>
         \/ \E d \in Connections, cut \in Cuts : phase[d] # "gone" /\ Halfway(d, cut)
  BY <1>1 DEF TurnInv
<1>4. ASSUME NEW d \in Connections, d # c
      PROVE  /\ Alone(d) => Alone(d)'
             /\ Between(d) => Between(d)'
             /\ \A cut \in Cuts \cup {Uncut} : Arriving(d, cut) => Arriving(d, cut)'
             /\ \A cut \in Cuts : Halfway(d, cut) => Halfway(d, cut)'
  <2>1. Alone(d) => Alone(d)'
    BY <1>2 DEF Alone
  <2>2. Between(d) => Between(d)'
    BY <1>1, <1>2, <1>4 DEF Between
  <2>3. \A cut \in Cuts \cup {Uncut} : Arriving(d, cut) => Arriving(d, cut)'
    BY <1>1, <1>2, <1>4 DEF Arriving, Fragments
  <2>4. \A cut \in Cuts : Halfway(d, cut) => Halfway(d, cut)'
    BY <1>1, <1>2, <1>4, <2>1 DEF Halfway, Fragments
  <2>5. QED BY <2>1, <2>2, <2>3, <2>4
<1>5. \A d \in Connections : phase'[d] = "gone" \/ TakesTurns(d)'
  <2> SUFFICES ASSUME NEW d \in Connections, d # c, phase[d] # "gone"
               PROVE  TakesTurns(d)'
    BY <1>2
  <2>1. TakesTurns(d)
    BY <1>3
  <2>2. QED BY <1>4, <2>1 DEF TakesTurns
<1>6. \/ clientMessage' = <<>>
      \/ \E d \in Connections, cut \in Cuts : phase'[d] # "gone" /\ Halfway(d, cut)'
      \/ \A d \in Connections : phase'[d] = "gone"
  <2>1. CASE clientMessage = <<>>
    BY <1>1, <2>1
  <2>2. ASSUME NEW d \in Connections, NEW cut \in Cuts, phase[d] # "gone", Halfway(d, cut),
               d # c
        PROVE  phase'[d] # "gone" /\ Halfway(d, cut)'
    BY <1>2, <1>4, <2>2
  <2>3. ASSUME NEW cut \in Cuts, Halfway(c, cut)
        PROVE  \A d \in Connections : phase'[d] = "gone"
    <3>1. stream[c] # <<>>
      BY <2>3 DEF Halfway
    <3>2. QED BY <1>2, <3>1
  <2>4. QED BY <1>3, <2>1, <2>2, <2>3
<1>7. \A d \in Connections : Numbered(d, returned[d])'
  BY <1>1, <1>3, NumberedAfter
<1>8. QED BY <1>5, <1>6, <1>7 DEF TurnInv

(* A connection that comes begins with nothing waiting.                    *)
LEMMA ConnectKeepsTurns ==
  ASSUME TypeOK, TurnInv, NEW c \in Connections, Connect(c)
  PROVE  TurnInv'
<1>1. /\ phase[c] = "absent" /\ phase' = [phase EXCEPT ![c] = "open"]
      /\ UNCHANGED <<written, stream, clientMessage, returned>>
  BY DEF Connect
<1>2. \A d \in Connections : phase'[d] = "gone" <=> phase[d] = "gone"
  BY <1>1 DEF TypeOK
<1>3. \A d \in Connections : Alone(d) <=> Alone(d)'
  BY <1>1, <1>2 DEF Alone
<1>4. \A d \in Connections : /\ TakesTurns(d) => TakesTurns(d)'
                             /\ \A cut \in Cuts : Halfway(d, cut) => Halfway(d, cut)'
                             /\ Numbered(d, returned[d]) => Numbered(d, returned[d])'
  <2> SUFFICES ASSUME NEW d \in Connections
               PROVE  /\ TakesTurns(d) => TakesTurns(d)'
                      /\ \A cut \in Cuts : Halfway(d, cut) => Halfway(d, cut)'
                      /\ Numbered(d, returned[d]) => Numbered(d, returned[d])'
    OBVIOUS
  <2>1. Numbered(d, returned[d]) => Numbered(d, returned[d])'
    BY <1>1, NumberedAfter
  <2>2. \A cut \in Cuts : Halfway(d, cut) => Halfway(d, cut)'
    BY <1>1, <1>3 DEF Halfway, Fragments, NothingSplits
  <2>3. Between(d) => Between(d)'
    BY <1>1 DEF Between
  <2>4. \A cut \in Cuts \cup {Uncut} : Arriving(d, cut) => Arriving(d, cut)'
    BY <1>1 DEF Arriving, Fragments
  <2>5. TakesTurns(d) => TakesTurns(d)'
    BY <1>3, <2>2, <2>3, <2>4 DEF TakesTurns
  <2>6. QED BY <2>1, <2>2, <2>5
<1>5. QED BY <1>1, <1>2, <1>4 DEF TurnInv

LEMMA StutterKeepsTurns ==
  ASSUME TurnInv, UNCHANGED vars
  PROVE  TurnInv'
<1>1. /\ phase' = phase /\ written' = written /\ stream' = stream
      /\ clientMessage' = clientMessage /\ returned' = returned
  BY DEF vars
<1>2. \A c \in Connections :
        /\ Alone(c) => Alone(c)'
        /\ Between(c) => Between(c)'
        /\ \A cut \in Cuts \cup {Uncut} : Arriving(c, cut) => Arriving(c, cut)'
  BY <1>1 DEF Alone, Between, Arriving, Fragments
<1>3. \A c \in Connections : \A cut \in Cuts : Halfway(c, cut) => Halfway(c, cut)'
  BY <1>1, <1>2 DEF Halfway, Fragments
<1>4. \A c \in Connections : TakesTurns(c) => TakesTurns(c)'
  BY <1>2, <1>3 DEF TakesTurns
<1>5. \A c \in Connections : Numbered(c, returned[c]) => Numbered(c, returned[c])'
  BY <1>1, NumberedAfter
<1>6. QED BY <1>1, <1>3, <1>4, <1>5 DEF TurnInv

(* In the beginning nobody has written anything.                           *)
LEMMA TurnsBegin ==
  ASSUME Init
  PROVE  TurnInv
<1>1. \A c \in Connections : Between(c) /\ Numbered(c, returned[c])
  <2>1. Len(<<>>) = 0 /\ 1 .. Len(<<>>) = {}
    OBVIOUS
  <2>2. (\A c \in Connections : Numbered(c, <<>>))
    BY <2>1 DEF Numbered
  <2>3. \A c \in Connections : returned[c] = <<>> /\ stream[c] = <<>> /\ written[c] = 0
    BY DEF Init
  <2>4. QED BY <2>1, <2>2, <2>3 DEF Between
<1>2. QED BY <1>1 DEF Init, TurnInv, TakesTurns

(* Who keeps to the turns has every message processed that was read.       *)
LEMMA TurnsSuffice ==
  ASSUME TypeOK, TurnInv
  PROVE  ReadMessageIsReturned
<1> SUFFICES ASSUME NEW c \in Connections, phase[c] = "open"
             PROVE  Len(returned[c]) = ReadInFull(c)
  BY DEF ReadMessageIsReturned
<1>1. /\ TakesTurns(c) /\ written[c] \in Nat /\ Len(returned[c]) \in Nat
  BY BoundAssumption, LenProperties DEF TurnInv, TypeOK
<1>2. CASE stream[c] = <<>>
  BY <1>1, <1>2, NothingWaits DEF ReadInFull, Between
<1>3. CASE stream[c] # <<>>
  <2>1. ASSUME NEW cut \in Cuts \cup {Uncut}, Arriving(c, cut) \/ Halfway(c, cut),
               cut = Uncut => Arriving(c, cut)
        PROVE  Len(returned[c]) + 1 = written[c] /\ stream[c][1].id = written[c]
    <3>1. Len(returned[c]) + 1 = written[c]
      BY <2>1 DEF Arriving, Halfway
    <3>2. written[c] \in Nat \ {0} /\ cut \in AllCuts \cup {Uncut}
      BY <1>1, <3>1, CutsAssumption, UncutIsNoCut
    <3> DEFINE new == Fragments(c, written[c], cut)
    <3>3. /\ Len(new) = IF cut = Uncut THEN 1 ELSE 2
          /\ \A i \in 1 .. Len(new) : new[i].id = written[c]
      BY <3>2, FragmentsShape
    <3> HIDE DEF new
    <3>4. CASE Arriving(c, cut)
      BY <3>1, <3>3, <3>4 DEF Arriving, new
    <3>5. CASE cut # Uncut /\ Halfway(c, cut)
      <4>1. stream[c] = <<new[2]>>
        BY <3>5 DEF Halfway, new
      <4>2. new[2].id = written[c]
        BY <3>3, <3>5
      <4>3. QED BY <3>1, <4>1, <4>2
    <3>6. QED BY <2>1, <3>4, <3>5
  <2>2. Len(returned[c]) + 1 = written[c] /\ stream[c][1].id = written[c]
    <3>1. Arriving(c, Uncut) \/ \E cut \in Cuts : Arriving(c, cut) \/ Halfway(c, cut)
      BY <1>1, <1>3 DEF TakesTurns, Between
    <3>2. Uncut \notin Cuts
      BY CutsAssumption, UncutIsNoCut
    <3>3. QED BY <2>1, <3>1, <3>2
  <2>3. QED BY <1>1, <1>3, <2>2 DEF ReadInFull
<1>4. QED BY <1>2, <1>3

(* A client that waits for one message to be processed before it writes    *)
(* the next one.  What else is needed is that no other connection shares   *)
(* the string with half a message: there is but one, or nothing is cut.    *)
LEMMA TurnsAreKept ==
  ASSUME ~ Pipelining, Cuts = {} \/ \A c, d \in Connections : c = d,
         TypeOK, TurnInv, [Next]_vars
  PROVE  TurnInv'
<1>1. Cuts = {} \/ \A c \in Connections : Alone(c) /\ \A d \in Connections : d = c
  <2>1. ASSUME \A c, d \in Connections : c = d, NEW c \in Connections
        PROVE  Alone(c) /\ \A d \in Connections : d = c
    BY <2>1 DEF Alone
  <2>2. QED BY <2>1
<1>2. ASSUME NEW c \in Connections, Write(c) PROVE TurnInv'
  <2>1. Len(returned[c]) = written[c]
    BY <1>2 DEF Write
  <2>2. QED BY <1>1, <1>2, <2>1, WriteKeepsTurns
<1>3. ASSUME NEW c \in Connections, ProcessIncomingMessage(c) PROVE TurnInv'
  BY <1>3, ReadKeepsTurns
<1>4. ASSUME NEW c \in Connections, Connect(c) PROVE TurnInv'
  BY <1>4, ConnectKeepsTurns
<1>5. ASSUME NEW c \in Connections, Disconnect(c) PROVE TurnInv'
  BY <1>1, <1>5, DisconnectKeepsTurns
<1>6. CASE UNCHANGED vars
  BY <1>6, StutterKeepsTurns
<1>7. QED BY <1>2, <1>3, <1>4, <1>5, <1>6 DEF Next

LEMMA TurnInvariant ==
  ASSUME ~ Pipelining, Cuts = {} \/ \A c, d \in Connections : c = d
  PROVE  Spec => []TurnInv
<1>1. Init => TurnInv
  BY TurnsBegin
<1>2. TypeOK /\ TurnInv /\ [Next]_vars => TurnInv'
  BY TurnsAreKept
<1>3. QED BY <1>1, <1>2, TypeCorrect, PTL DEF Spec

(* What client_connection.h:61-64 promises, that a message received in     *)
(* full is returned, holds of a client that waits for its answers and      *)
(* shares the string with nobody, wherever the network cuts its messages,  *)
(* and of any number of such clients when the network cuts nothing.        *)
THEOREM WaitingClientsAreServed ==
  ASSUME ~ Pipelining, Cuts = {} \/ \A c, d \in Connections : c = d
  PROVE  Spec => []ReadMessageIsReturned
<1>1. TypeOK /\ TurnInv => ReadMessageIsReturned
  BY TurnsSuffice
<1>2. QED BY <1>1, TurnInvariant, TypeCorrect, PTL

(* The numbers handed over are 1, 2, 3 and so on, as many as documents.    *)
LEMMA HandedCounts ==
  ASSUME NEW c, NEW docs \in Seq(Seq(Piece)), Numbered(c, docs), NothingSplits
  PROVE  [k \in 1 .. Len(docs) |->
            IF SameText(c, docs[k]) THEN MessageOf(docs[k]) ELSE 0]
         = [k \in 1 .. Len(docs) |-> k]
BY DEF Numbered

LEMMA CountUp ==
  ASSUME NEW n \in Nat
  PROVE  /\ Len([k \in 1 .. n |-> k]) = n
         /\ [k \in 1 .. n + 1 |-> k] = Append([k \in 1 .. n |-> k], n + 1)
<1> DEFINE s == [k \in 1 .. n |-> k]
<1>1. s \in [1 .. n -> Nat]
  OBVIOUS
<1>2. s \in Seq(Nat) /\ Len(s) = n
  BY <1>1
<1>3. [k \in 1 .. n + 1 |-> k] \in Seq(Nat) /\ Len([k \in 1 .. n + 1 |-> k]) = n + 1
  <2>1. [k \in 1 .. n + 1 |-> k] \in [1 .. n + 1 -> Nat]
    OBVIOUS
  <2>2. n + 1 \in Nat
    OBVIOUS
  <2>3. QED BY <2>1, <2>2
<1>4. \A k \in 1 .. n : s[k] = k
  OBVIOUS
<1> HIDE DEF s
<1>5. /\ Append(s, n + 1) \in Seq(Nat) /\ Len(Append(s, n + 1)) = n + 1
      /\ \A k \in 1 .. n : Append(s, n + 1)[k] = k
      /\ Append(s, n + 1)[n + 1] = n + 1
  <2>1. n + 1 \in Nat
    OBVIOUS
  <2>2. QED BY <1>2, <1>4, <2>1, AppendProperties
<1>6. \A k \in 1 .. n + 1 : Append(s, n + 1)[k] = k
  <2>1. \A k \in 1 .. n + 1 : k \in 1 .. n \/ k = n + 1
    OBVIOUS
  <2>2. QED BY <1>5, <2>1
<1> DEFINE up == [k \in 1 .. n + 1 |-> k]
<1>7. /\ up \in Seq(Nat) /\ Len(up) = n + 1
      /\ \A k \in 1 .. n + 1 : up[k] = k
  BY <1>3
<1> HIDE DEF up
<1>8. up = Append(s, n + 1)
  BY <1>5, <1>6, <1>7, SeqEqual
<1>9. QED BY <1>2, <1>8 DEF s, up

(* What a step of the assembly is to the channel: connecting opens it,     *)
(* writing asks, a document is handed over, a read without one is nothing. *)
LEMMA ChannelStep ==
  ASSUME NothingSplits, TypeOK, TurnInv, TypeOK', TurnInv', [Next]_vars
  PROVE  [Channel!Next]_(Channel!channelVars)
<1>1. /\ \A c \in Connections : returned[c] \in Seq(Seq(Piece)) /\ Len(returned[c]) \in Nat
      /\ \A c \in Connections : Handed[c] = [k \in 1 .. Len(returned[c]) |-> k]
      /\ Handed = [c \in Connections |-> Handed[c]]
  <2>1. \A c \in Connections : returned[c] \in Seq(Seq(Piece)) /\ Len(returned[c]) \in Nat
    BY LenProperties DEF TypeOK
  <2>2. QED BY <2>1, HandedCounts DEF TurnInv, Handed
<1>2. CASE UNCHANGED vars
  BY <1>2 DEF vars, Channel!channelVars, Handed, SameText, OneMessage, MessageOf
<1>3. ASSUME NEW c \in Connections, Connect(c)
      PROVE  Channel!Open(c)
  BY <1>3 DEF Connect, Channel!Open, Handed, SameText, OneMessage, MessageOf
<1>4. ASSUME NEW c \in Connections, Write(c)
      PROVE  Channel!Ask(c)
  BY <1>4 DEF Write, Channel!Ask, Handed, SameText, OneMessage, MessageOf
<1>5. ASSUME NEW c \in Connections, Disconnect(c)
      PROVE  Channel!Close(c)
  BY <1>5 DEF Disconnect, Channel!Close, Handed, SameText, OneMessage, MessageOf
<1>6. ASSUME NEW c \in Connections, ProcessIncomingMessage(c)
      PROVE  Channel!Hand(c) \/ UNCHANGED Channel!channelVars
  <2>1. phase[c] = "open" /\ phase' = phase /\ written' = written
    BY <1>6 DEF ProcessIncomingMessage
  <2>2. PICK n \in 1 .. Len(stream[c]), text \in Seq(Piece), rest \in Seq(Piece) :
          /\ ReadOnto(text, clientMessage, stream[c], n)
          /\ \A d \in Connections : d # c => returned'[d] = returned[d]
          /\ \/ returned'[c] = Append(returned[c], text)
             \/ returned' = returned
    BY <1>6, ReadStep
  <2>3. CASE returned' = returned
    BY <2>1, <2>3 DEF Channel!channelVars, Handed, SameText, OneMessage, MessageOf
  <2>4. CASE returned'[c] = Append(returned[c], text)
    <3>1. Len(returned'[c]) = Len(returned[c]) + 1
      BY <1>1, <2>2, <2>4, AppendProperties
    <3>2. \A d \in Connections :
            /\ returned'[d] \in Seq(Seq(Piece))
            /\ Handed'[d] = [k \in 1 .. Len(returned'[d]) |-> k]
      <4>1. \A d \in Connections : returned'[d] \in Seq(Seq(Piece))
        BY DEF TypeOK
      <4>2. \A d \in Connections : Numbered(d, returned'[d])
        BY NumberedAfter DEF TurnInv
      <4>3. \A d \in Connections :
              Handed'[d] = [k \in 1 .. Len(returned'[d]) |->
                              IF SameText(d, returned'[d][k])
                                THEN MessageOf(returned'[d][k]) ELSE 0]
        BY DEF Handed, SameText, OneMessage, MessageOf
      <4>4. ASSUME NEW d \in Connections
            PROVE  Handed'[d] = [k \in 1 .. Len(returned'[d]) |-> k]
        <5> DEFINE docs == returned'[d]
        <5>1. docs \in Seq(Seq(Piece)) /\ Numbered(d, docs)
          BY <4>1, <4>2
        <5>2. Handed'[d] = [k \in 1 .. Len(docs) |->
                              IF SameText(d, docs[k]) THEN MessageOf(docs[k]) ELSE 0]
          BY <4>3
        <5> HIDE DEF docs
        <5>3. Handed'[d] = [k \in 1 .. Len(docs) |-> k]
          BY <5>1, <5>2, HandedCounts
        <5>4. QED BY <5>3 DEF docs
      <4>5. QED BY <4>1, <4>4
    <3>3. Len(Handed[c]) = Len(returned[c])
      BY <1>1, CountUp
    <3>4. Handed'[c] = Append(Handed[c], Len(Handed[c]) + 1)
      <4>1. Len(returned[c]) \in Nat /\ Handed[c] = [k \in 1 .. Len(returned[c]) |-> k]
        BY <1>1
      <4>2. Handed'[c] = [k \in 1 .. Len(returned[c]) + 1 |-> k]
        BY <3>1, <3>2
      <4>3. Handed'[c] = Append([k \in 1 .. Len(returned[c]) |-> k], Len(returned[c]) + 1)
        BY <4>1, <4>2, CountUp
      <4>4. QED BY <3>3, <4>1, <4>3, Zenon
    <3>5. \A d \in Connections : d # c => Handed'[d] = Handed[d]
      BY <1>1, <2>2, <3>2
    <3>6. Handed' = [Handed EXCEPT ![c] = Append(Handed[c], Len(Handed[c]) + 1)]
      <4>1. /\ Handed = [d \in Connections |-> Handed[d]]
            /\ Handed' = [d \in Connections |-> Handed'[d]]
        BY DEF Handed, SameText, OneMessage, MessageOf
      <4>2. DOMAIN Handed = Connections /\ DOMAIN Handed' = Connections
        BY DEF Handed
      <4> DEFINE more == Append(Handed[c], Len(Handed[c]) + 1)
      <4> HIDE DEF more
      <4>3. Handed'[c] = more
        BY <3>4 DEF more
      <4>4. Handed' = [Handed EXCEPT ![c] = more]
        BY <3>5, <4>1, <4>2, <4>3
      <4>5. QED BY <4>4 DEF more
    <3>7. Len(Handed[c]) < written[c]
      <4>1. Len(returned[c]) + 1 = written[c] /\ written[c] \in Nat
        BY <2>1, <2>2, ReadInTurn
      <4>2. QED BY <1>1, <3>3, <4>1
    <3>8. QED BY <2>1, <3>6, <3>7 DEF Channel!Hand
  <2>5. QED BY <2>2, <2>3, <2>4
<1>7. QED BY <1>2, <1>3, <1>4, <1>5, <1>6 DEF Next, Channel!Next

(* Nothing has been handed over to begin with.                             *)
LEMMA ChannelBegins == Init => Channel!Init
<1>1. 1 .. Len(<<>>) = {}
  OBVIOUS
<1>2. \A c : [k \in {} |-> IF SameText(c, <<>>[k]) THEN MessageOf(<<>>[k]) ELSE 0] = <<>>
  OBVIOUS
<1>3. Init => Handed = [c \in Connections |-> <<>>]
  <2> SUFFICES ASSUME Init, NEW c \in Connections
               PROVE  Handed[c] = <<>>
    BY DEF Handed
  <2>1. returned[c] = <<>>
    BY DEF Init
  <2>2. Handed[c] = [k \in 1 .. Len(returned[c]) |->
                       IF SameText(c, returned[c][k])
                         THEN MessageOf(returned[c][k]) ELSE 0]
    BY DEF Handed
  <2>3. QED BY <1>1, <1>2, <2>1, <2>2
<1>4. QED BY <1>3 DEF Init, Channel!Init

(* Under the same conditions, and if the network splits no character, the  *)
(* assembly implements the abstract channel: every message is handed over  *)
(* whole, once and in order.  That one which was written is handed over at *)
(* all is left to TLC.                                                     *)
THEOREM AssemblyImplementsChannel ==
  ASSUME ~ Pipelining, Cuts = {} \/ \A c, d \in Connections : c = d,
         \A cut \in Cuts : ~ cut.splits
  PROVE  Spec => Channel!SafetySpec
<1>1. Init => Channel!Init
  BY ChannelBegins
<1>2. TypeOK /\ TurnInv /\ TypeOK' /\ TurnInv' /\ [Next]_vars
        => [Channel!Next]_(Channel!channelVars)
  BY ChannelStep DEF NothingSplits
<1>3. QED BY <1>1, <1>2, TypeCorrect, TurnInvariant, PTL DEF Spec, Channel!SafetySpec
=============================================================================
