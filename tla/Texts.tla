-------------------------------- MODULE Texts --------------------------------
(***************************************************************************)
(* Searching in a text, which is a sequence of tokens: a word, a blank or a *)
(* sign each.                                                               *)
(***************************************************************************)
EXTENDS Integers, FiniteSets, FiniteSetsExt, Sequences, SequencesExt

\* The first position of a set; 0: there is none.
First(S) == IF S = {} THEN 0 ELSE Min(S)

\* Positions where the words ws stand in s, and those of one token in a..b.
Occurs(s, ws) == {i \in 1..(Len(s) - Len(ws) + 1) : SubSeq(s, i, i + Len(ws) - 1) = ws}
At(s, token, a, b) == {i \in a..b : s[i] = token}

\* The members of S from 1 to n, in order; the parts of a text between positions.
InOrder(S, n) == SelectSeq([i \in 1..n |-> i], LAMBDA i : i \in S)
PartsOf(s, S) ==
    LET cut == <<0>> \o InOrder(S, Len(s)) \o <<Len(s) + 1>>
    IN  [k \in 1..(Len(cut) - 1) |-> SubSeq(s, cut[k] + 1, cut[k + 1] - 1)]

\* A column that has no default.
NoDefault == <<"no default">>

\* What is behind a token that opens s; <<>>: another token opens it.
After(s, token) == IF s # <<>> /\ Head(s) = token THEN Tail(s) ELSE <<>>

Trim(s) ==
    LET words == {i \in DOMAIN s : s[i] # " "}
    IN  IF words = {} THEN <<>> ELSE SubSeq(s, Min(words), Max(words))

\* Every token t of s as the tokens that change has for it.
Rewrite(s, change) ==
    FlattenSeq([i \in DOMAIN s |-> IF s[i] \in DOMAIN change THEN change[s[i]] ELSE <<s[i]>>])

\* The backslashes of s that escape: every other one of a row.
Escaping(s) ==
    LET escaping[i \in 0..Len(s)] == i > 0 /\ s[i] = "\\" /\ ~escaping[i - 1] IN escaping

\* join(", ").
Listed(parts) ==
    FlattenSeq([k \in DOMAIN parts |-> IF k = 1 THEN parts[k] ELSE <<",", " ">> \o parts[k]])
=============================================================================
