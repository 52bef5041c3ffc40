---------------------------- MODULE MCCatalogRead ----------------------------
EXTENDS CatalogRead
\* Two tables and a view of one schema, and a table of another with the name of
\* the first.
MCTables == {<<<<"a">>, <<"t">>>>, <<<<"a">>, <<"u">>>>, <<<<"a">>, <<"v">>>>, <<<<"b">>, <<"t">>>>}
MCTypeOf == [t \in MCTables |-> IF t[2] = <<"v">> THEN "view" ELSE "table"]

\* An index without anything special, and what others have beyond it.
Index(name, cols) ==
    [name |-> name, columns |-> cols, unique |-> FALSE, include |-> <<>>, predicate |-> <<>>,
     method |-> <<"btree">>, options |-> <<>>, operators |-> <<>>, table |-> <<"a", ".", "t">>]
Descending == <<"c", " ", "DESC">>
Expression == <<"f", "(", "c", ",", " ", "1", ")">>
Predicate == <<"(", "c", " ", ">", " ", "0", ")">>

\* PostgreSQL: an expression with a comma and an INCLUDE list whose name holds a
\* parenthesis; a predicate behind options; a constraint that excludes; and two
\* that the parser cannot take apart (a quoted comma, a table "reUSING ").
MCIndexes ==
    [mysql |-> <<[Index("i", <<<<"c">>, Descending>>) EXCEPT !.unique = TRUE],
                 Index("j", <<Expression>>)>>,
     postgres |->
       <<[Index("i", <<Expression, Descending>>) EXCEPT
            !.unique = TRUE, !.include = <<"\"", "e", ")", "\"", ",", " ", "d">>,
            !.options = <<" ", "WITH", " ", "(", "fillfactor", ")">>, !.predicate = Predicate],
         [Index("j", <<<<"c">>, <<"d">>>>) EXCEPT
            !.method = <<"gist">>, !.predicate = Predicate,
            !.operators = <<<<" ", "WITH", " ", "=">>, <<" ", "WITH", " ", "&&">>>>],
         Index("k", <<<<"\"", "c", ",", "\"">>, <<"d">>>>),
         [Index("l", <<<<"c">>>>) EXCEPT !.table = <<"a", ".", "re", "USING">>]>>]

\* The column c of every table as far as nothing is special about it.
Field(type, kindOfDefault, value) ==
    [name |-> <<"c">>, type |-> type, kind |-> kindOfDefault, value |-> value, nullable |-> <<"YES">>,
     computed |-> FALSE, key |-> <<>>, comment |-> <<>>]

\* An expression, the string NULL, an empty string and no default, of columns that
\* may be NULL, may not, and are computed; a quote, a row of backslashes, a line
\* end and a letter behind a backslash; bytes, a date, CURRENT_TIMESTAMP as
\* MySQL 5.7 tells it, a number.  Comments with two kinds of line ends, with the
\* signs of tables, code and links, and with one that cell lets through.
MCFields ==
    <<Field("string", "expression", <<"f(", "'", "a", "\\", "n", "'", "NL", "'", "'", ")">>),
      [Field("string", "string", <<"NULL">>) EXCEPT !.name = <<"d">>, !.key = <<"MUL">>,
         !.comment = <<"a", "CR", "NL", "|", "NL", "## ", "\\", "|">>],
      Field("string", "string", <<>>),
      Field("string", "none", <<>>),
      [Field("string", "none", <<>>) EXCEPT !.nullable = <<"NO">>, !.comment = <<"_", "a", "_">>],
      [Field("string", "none", <<>>) EXCEPT !.computed = TRUE],
      Field("string", "string", <<"'", "\\", "\\", "'", "'", "NL", "\\", "n">>),
      Field("string", "string", <<"CURRENT_TIMESTAMP", "NUL", "\\">>),
      Field("binary", "plain", <<"0x", "61">>),
      [Field("binary", "string", <<"a", "SUB">>) EXCEPT
         !.comment = <<"[", "a", "]", "(", "b", ")", "<", "b", ">", "backtick", " ">>],
      Field("temporal", "string", <<"2024-01-01">>),
      Field("temporal", "plain", <<"CURRENT_TIMESTAMP", "(6)">>),
      Field("number", "plain", <<"0">>)>>

\* PostgreSQL: c is unique by itself and the first of two columns, d is the second
\* of them and of the primary key.
KeyRow(column, primary, unique, count, position) ==
    [column |-> column, primary |-> primary, unique |-> unique, count |-> count, position |-> position]
MCKeyRows ==
    <<KeyRow(<<"c">>, FALSE, TRUE, 1, 1), KeyRow(<<"c">>, FALSE, TRUE, 2, 1),
      KeyRow(<<"d">>, FALSE, TRUE, 2, 2), KeyRow(<<"d">>, TRUE, TRUE, 2, 2)>>

\* A key of two columns into the other schema, one of a single column.
Pair(of, to) == [of |-> <<of>>, to |-> <<to>>]
MCKeys ==
    <<[name |-> <<"f">>, columns |-> <<Pair("c", "|"), Pair("d", "y")>>, schema |-> <<"b">>, table |-> <<"t">>],
      [name |-> <<"g">>, columns |-> <<Pair("d", "*")>>, schema |-> <<"a">>, table |-> <<"u">>]>>

\* A line of three backticks and a heading inside of a definition.
MCViewTexts ==
    [t \in {<<<<"a">>, <<"v">>>>} |->
       <<"SELECT", " ", "backtick", "c", "backtick", "NL", "backtick", "backtick", "backtick", "NL",
         "## ", "c", "NL", "FROM", " ", "t">>]
MCComment == <<"*", "a", "\\">>
=============================================================================
