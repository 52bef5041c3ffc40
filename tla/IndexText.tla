------------------------------ MODULE IndexText ------------------------------
(***************************************************************************)
(* parse_pg_indexdef (db/postgres/parse.rs): PostgreSQL tells of an index   *)
(* by the statement that creates it, whose parts are found by counting      *)
(* parentheses.  A text is a sequence of tokens: words, blanks, parentheses, *)
(* commas and quotes; a part that is missing is <<>>.                       *)
(***************************************************************************)
EXTENDS Texts

\* How many of the parentheses of s that open in a..b are not closed there.
Depth(s, a, b) == Cardinality(At(s, "(", a, b)) - Cardinality(At(s, ")", a, b))

\* find_column_block: from the first parenthesis behind USING to the one that
\* closes it; 0 if there is none.
BlockOpen(s) == First({i \in At(s, "(", 1, Len(s)) : i > First(At(s, "USING", 1, Len(s)))})
BlockClose(s) == First({i \in BlockOpen(s)..Len(s) : Depth(s, BlockOpen(s), i) = 0})

\* Mutant: every comma separates columns.
SplitAtAnyComma(s) ==
    SelectSeq(PartsOf(s, At(s, ",", 1, Len(s))), LAMBDA part : part # <<>>)

\* split_top_level_commas: only commas outside of parentheses separate columns.
Split(s) ==
    LET parts == PartsOf(s, {i \in At(s, ",", 1, Len(s)) : Depth(s, 1, i) = 0})
    IN  IF Last(parts) = <<>> THEN Front(parts) ELSE parts

\* clean_index_column: the default ASC goes, unless the column is an expression.
Clean(column) ==
    IF "(" \in Range(column) THEN column
    ELSE Trim(SelectSeq(column, LAMBDA token : token # "ASC"))

Columns(block) == LET parts == Split(block) IN [k \in DOMAIN parts |-> Clean(Trim(parts[k]))]

\* Inside which quote position i of s is; a quote of the other kind is text there.
QuoteAt(s) ==
    LET quote[i \in 0..Len(s)] ==
          IF i = 0 THEN ""
          ELSE IF quote[i - 1] = "" THEN IF s[i] \in {"'", "\""} THEN s[i] ELSE ""
          ELSE IF s[i] = quote[i - 1] THEN "" ELSE quote[i - 1]
    IN  quote

\* closing_paren: parentheses inside quotes do not count.
ClosingParen(s, open) ==
    LET quote == QuoteAt(s)
        bare == [i \in DOMAIN s |-> IF quote[i] = "" THEN s[i] ELSE "quoted"]
    IN  First({i \in open..Len(s) : Depth(bare, open, i) = 0})

\* split_include: what stands behind the columns, as the list of INCLUDE and the rest.
SplitInclude(s) ==
    LET text == SubSeq(s, First({i \in DOMAIN s : s[i] # " "}), Len(s))
        close == IF s # <<>> /\ IsPrefix(<<"INCLUDE", " ", "(">>, text) THEN ClosingParen(text, 3) ELSE 0
    IN  IF close = 0 THEN <<<<>>, s>>
        ELSE <<Trim(SubSeq(text, 4, close - 1)), SubSeq(text, close + 1, Len(text))>>

\* extract_where_clause: all that follows the first WHERE outside of parentheses.
Where(s) ==
    LET at == First({i \in Occurs(s, <<"WHERE", " ">>) :
                       Depth(s, 1, i - 1) = 0 /\ (i = 1 \/ s[i - 1] = " ")})
    IN  IF at = 0 THEN <<>> ELSE Trim(SubSeq(s, at + 2, Len(s)))

\* The word behind the first USING.
Method(s) ==
    LET at == First(Occurs(s, <<"USING", " ">>))
        rest == Trim(SubSeq(s, at + 2, Len(s)))
        blank == First(At(rest, " ", 1, Len(rest)))
    IN  IF at = 0 THEN <<>> ELSE SubSeq(rest, 1, IF blank = 0 THEN Len(rest) ELSE blank - 1)

\* parse_pg_indexdef.
Parse(s) ==
    LET open == BlockOpen(s)
        close == BlockClose(s)
        found == open > 0 /\ close > 0
        tail == SplitInclude(SubSeq(s, close + 1, Len(s)))
    IN  [unique |-> IsPrefix(<<"CREATE", " ", "UNIQUE", " ", "INDEX">>, s),
         columns |-> IF found THEN Columns(SubSeq(s, open + 1, close - 1)) ELSE <<>>,
         include |-> IF found THEN tail[1] ELSE <<>>,
         predicate |-> IF found THEN Where(tail[2]) ELSE <<>>,
         method |-> Method(s)]

-----------------------------------------------------------------------------
\* How the server words an index (pg_get_indexdef) and a constraint that
\* excludes (pg_get_constraintdef): the parts of the index, and the options that
\* the document leaves out.
Wording(start, x, list) ==
    start \o <<" ", "USING", " ">> \o x.method \o <<" ", "(">> \o Listed(list) \o <<")">>
      \o (IF x.include = <<>> THEN <<>> ELSE <<" ", "INCLUDE", " ", "(">> \o x.include \o <<")">>)
      \o x.options
      \o (IF x.predicate = <<>> THEN <<>> ELSE <<" ", "WHERE", " ">> \o x.predicate)
Definition(x) ==
    Wording(<<"CREATE", " ">> \o (IF x.unique THEN <<"UNIQUE", " ">> ELSE <<>>)
              \o <<"INDEX", " ", x.name, " ", "ON", " ">> \o x.table, x, x.columns)
ConstraintDefinition(x) ==
    Wording(<<"EXCLUDE">>, x, [k \in DOMAIN x.columns |-> x.columns[k] \o x.operators[k]])

\* The words of a text that stand inside quotes.
InQuotes(s) == {s[i] : i \in {j \in DOMAIN s : QuoteAt(s)[j] # "" /\ QuoteAt(s)[j - 1] # ""}}

\* Indexes that the parser cannot take apart: a quoted name or a literal among
\* the columns holds a parenthesis, a comma or a blank, or the name of the table
\* ends in USING.
Unreadable(x) ==
    \/ \E k \in DOMAIN x.columns : InQuotes(x.columns[k]) \cap {"(", ")", ",", " "} # {}
    \/ "USING" \in Range(x.table) \cup {x.name}
=============================================================================
