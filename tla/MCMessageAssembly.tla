------------------------- MODULE MCMessageAssembly -------------------------
(* Model-checking instance of MessageAssembly: the clients are alike.      *)
EXTENDS MessageAssembly, TLC

Symmetry == Permutations(Connections)

Cut(ends, starts) == [ends |-> ends, starts |-> starts,
                      plain |-> starts = "close", splits |-> FALSE]

InText == Cut("text", "text")
Split  == [InText EXCEPT !.splits = TRUE]

(* Every cut that splits no character.                                     *)
BetweenCharacters == {cut \in AllCuts : ~ cut.splits}

(* One of each way to be joined with another message: inside a word, with  *)
(* a tail that may stand inside a word, at a brace, after a comma, before  *)
(* a value, before the last brace, and through a character.                *)
Joining == {InText, Split, Cut("brace", "member"), Cut("comma", "member"),
            [Cut("colon", "digits") EXCEPT !.plain = TRUE], Cut("value", "close")}

OneCut == {InText}

(* A word, a brace and a comma: enough to mix the words of two clients.    *)
Mixing == {InText, Cut("brace", "member"), Cut("comma", "member")}
=============================================================================
