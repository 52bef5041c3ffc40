------------------------------ MODULE MySqlText ------------------------------
(***************************************************************************)
(* Texts of the MySQL server that the client changes (db/mysql.rs): the     *)
(* head of a definition, whose DEFINER clause goes, and the default of a    *)
(* column, which the server tells without quotes.                           *)
(***************************************************************************)
EXTENDS Texts

\* The signs that a name may stand in: by the mode of the session.
QuoteSigns == {"backtick", "\""}

\* Mutant: the first quote ends a name, doubled or not.
ClosingFirst(s) == First(At(s, s[1], 2, Len(s)))

\* The quote that ends the name at the start of s: two quotes in a row are one
\* in the name.  0: the name does not end.
Closing(s) ==
    First({i \in At(s, s[1], 2, Len(s)) :
             /\ i = Len(s) \/ s[i + 1] # s[1]
             /\ Cardinality(At(s, s[1], 2, i)) % 2 = 1})

\* skip_quoted_identifier: what follows the name.
AfterName(s) ==
    IF s # <<>> /\ Head(s) \in QuoteSigns /\ Closing(s) > 0
    THEN SubSeq(s, Closing(s) + 1, Len(s)) ELSE <<>>

\* without_definer; <<>>: the text has another form.
WithoutDefiner(ddl) ==
    LET body == After(ddl, "CREATE ")
        algorithm == IF After(body, "ALGORITHM=") = <<>> THEN <<>>
                     ELSE SubSeq(body, 1, First(At(body, " ", 1, Len(body))))
        clause == SubSeq(body, Len(algorithm) + 1, Len(body))
        rest == After(AfterName(After(AfterName(After(clause, "DEFINER=")), "@")), " ")
    IN  IF rest = <<>> THEN <<>> ELSE <<"CREATE ">> \o algorithm \o rest

\* quote_string_literal.
QuoteString(value) ==
    LET code == [NL |-> "n", CR |-> "r", NUL |-> "0", SUB |-> "Z"]
        escaped == [t \in DOMAIN code \cup {"\\", "'"} |->
                      IF t = "'" THEN <<"'", "'">>
                      ELSE <<"\\", IF t = "\\" THEN t ELSE code[t]>>]
    IN  <<"'">> \o Rewrite(value, escaped) \o <<"'">>

\* The sign that a backslash and a token stand for.
Unescaped(t) ==
    CASE t = "n" -> "NL" [] t = "r" -> "CR" [] t = "t" -> "TAB" [] t = "0" -> "NUL"
      [] t = "Z" -> "SUB" [] t = "b" -> "BS" [] OTHER -> t

\* Mutant: every backslash goes.
UnescapeBare(s) == SelectSeq(s, LAMBDA t : t # "\\")

\* unescape_one_level; a backslash at the end stays.
Unescape(s) ==
    FlattenSeq([i \in DOMAIN s |->
                  IF Escaping(s)[i] THEN IF i = Len(s) THEN <<"\\">> ELSE <<>>
                  ELSE <<IF Escaping(s)[i - 1] THEN Unescaped(s[i]) ELSE s[i]>>])

\* is_hex, is_current_timestamp and the types whose literals take no quotes.
ToldPlainly(value, type) ==
    \/ type = "binary" /\ After(value, "0x") # <<>>
    \/ type = "temporal" /\ value # <<>> /\ Head(value) = "CURRENT_TIMESTAMP"
    \/ type = "number"

\* quote_literal_default of a default as information_schema has it.
QuoteDefault(given, type) ==
    IF given.null THEN NoDefault
    ELSE IF given.generated THEN Unescape(given.value)
    ELSE IF ToldPlainly(given.value, type) THEN given.value
    ELSE QuoteString(given.value)

-----------------------------------------------------------------------------
\* A head as the server has it: the algorithm is one word or none, the names of the
\* account hold any signs, a definition follows.
IsHead(h) ==
    /\ h.algorithm \in STRING \ {" "} /\ h.quote \in QuoteSigns
    /\ h.user \in Seq(STRING) /\ h.host \in Seq(STRING) /\ h.rest \in Seq(STRING) \ {<<>>}

\* How the server words a definition's head: the account of its definer in the
\* quotes of the session, a quote in a name doubled; "none": no host.
Worded(h) ==
    LET name(n) == <<h.quote>> \o Rewrite(n, [t \in {h.quote} |-> <<t, t>>]) \o <<h.quote>>
    IN  <<"CREATE ">> \o (IF h.algorithm = "" THEN <<>> ELSE <<"ALGORITHM=", h.algorithm, " ">>)
          \o <<"DEFINER=">> \o name(h.user) \o (IF h.host = <<"none">> THEN <<>> ELSE <<"@">> \o name(h.host))
          \o <<" ">> \o h.rest

\* ... and without its clause.
WordedWithout(h) ==
    <<"CREATE ">> \o (IF h.algorithm = "" THEN <<>> ELSE <<"ALGORITHM=", h.algorithm, " ">>) \o h.rest

\* A default as the server has it: none, a string in quotes, a plain value or an
\* expression.  What is told plainly is a plain value: a string of bytes is told in
\* hexadecimal, no date is CURRENT_TIMESTAMP.
IsDefault(d) ==
    /\ d.kind \in {"none", "string", "plain", "expression"} /\ d.value \in Seq(STRING)
    /\ d.kind = "plain" => ToldPlainly(d.value, d.type)
    /\ d.kind = "string" => ~ToldPlainly(d.value, d.type)

\* How information_schema tells of a default: a string as it is, a plain value
\* (a number, bytes in hexadecimal, CURRENT_TIMESTAMP) too, an expression marked
\* and with one level of escapes.
Given(d) ==
    LET escaped == [t \in {"\\", "'", "NL"} |-> <<"\\", IF t = "NL" THEN "n" ELSE t>>]
    IN  [null |-> d.kind = "none",
         generated |-> d.kind = "expression",
         value |-> IF d.kind = "expression" THEN Rewrite(d.value, escaped) ELSE d.value]

\* The string that a literal in quotes stands for.
Unquoted(text) ==
    LET body == SubSeq(text, 2, Len(text) - 1)
        opens[i \in 0..Len(body)] == i > 0 /\ ~opens[i - 1] /\ body[i] \in {"\\", "'"}
    IN  FlattenSeq([i \in DOMAIN body |->
                      IF opens[i] THEN <<>>
                      ELSE IF opens[i - 1] /\ body[i - 1] = "\\" THEN <<Unescaped(body[i])>>
                      ELSE <<body[i]>>])

\* A text stands for a default: what the server would take it for.
StandsFor(text, d) ==
    CASE d.kind = "none" -> text = NoDefault
      [] d.kind = "string" -> /\ Len(text) > 1 /\ Head(text) = "'" /\ Last(text) = "'"
                              /\ Unquoted(text) = d.value
                              /\ Range(text) \cap {"NL", "CR", "NUL", "SUB"} = {}
      [] OTHER -> text = d.value
=============================================================================
