------------------------------- MODULE ViewText -------------------------------
(***************************************************************************)
(* Where the dependencies of ViewOrder come from: the text of a view's     *)
(* definition, searched for the names of the other views                   *)
(* (references_view) after the contents of its string literals were        *)
(* blanked (without_string_literals).                                      *)
(*                                                                         *)
(* A text is a sequence of characters; letters stand for words, " AS " is  *)
(* one character, and q is the quote of identifiers, "`" for MySQL and a   *)
(* double quote for PostgreSQL.  Every text is the head of its CREATE VIEW *)
(* and one piece for each other view: a use of it, or something that only  *)
(* holds its name.                                                         *)
(***************************************************************************)
EXTENDS ViewOrder, SequencesExt

CONSTANT ViewName \* view |-> its name, a sequence of letters and "q"

ASSUME ViewNameAssumption == ViewName \in [Views -> Seq({"v", "w", "q"})]

VARIABLES
  dialect, \* "mysql" or "postgres"
  style,   \* how the texts write a use: which of its two parts are quoted
  foreign, \* what else a text may hold for a view that it does not use
  uses,    \* <<v, w>>: view v selects from view w
  holds,   \* <<v, w>>: the text of v has that other thing for w
  definition \* the definitions as the server gives them

texts == <<dialect, style, foreign, uses, holds, definition>>
textVars == <<viewVars, texts>>

MySql == dialect = "mysql"
Letters == {"s", "t", "v", "w"}

\* A name in quotes, the quotes inside it doubled.
Quoted(name) ==
  <<"q">> \o FlattenSeq([i \in DOMAIN name |-> IF name[i] = "q" THEN <<"q", "q">> ELSE <<name[i]>>])
          \o <<"q">>
Schema == <<"s">>
Dotted(s, n) == s \o <<".">> \o n

\* How the server writes the name of view w.  MySQL quotes always and leaves the
\* current database out; PostgreSQL always has the schema, and quotes where it must.
Styles == IF MySql THEN {"plain", "quoted"} ELSE {"plain", "schema", "name", "quoted"}
Plain(name) == \A i \in DOMAIN name : name[i] # "q"
Written(w) ==
  LET n == ViewName[w]
  IN  IF MySql
      THEN IF style = "plain" THEN Quoted(n) ELSE Dotted(Quoted(Schema), Quoted(n))
      ELSE Dotted(IF style \in {"schema", "quoted"} THEN Quoted(Schema) ELSE Schema,
                  IF style \in {"name", "quoted"} \/ ~Plain(n) THEN Quoted(n) ELSE n)

\* What holds the name of view w without using it: literals, plain, with an
\* escaped quote and ending in a backslash; the column of that name of t; the
\* account in DEFINER=; an alias behind AS; an identifier with a single quote.
\* Two of them cannot be told from a use: in MySQL the alias of a table, in
\* PostgreSQL the call of a function.
Misleading == {"table_alias", "call"}
Foreign ==
  {"literal", "escaped", "backslash", "apostrophe", "column"}
    \cup IF MySql THEN {"definer", "alias", "table_alias"} ELSE {"call"}
Piece(kind, w) ==
  CASE kind = "literal"    -> <<"'">> \o Written(w) \o <<"'">>
    [] kind = "escaped"    -> (IF MySql THEN <<"'", "t", "\\", "'", " ">> ELSE <<"'", "t", "'", "'", " ">>)
                                \o Written(w) \o <<"'">>
    [] kind = "backslash"  -> IF MySql THEN <<"'", "\\", "\\", "'">> ELSE <<"'", "\\", "'">>
    [] kind = "apostrophe" -> <<"q", "t", "'", "q">>
    [] kind = "column"     -> <<"t", ".">> \o Written(w)
    [] kind = "definer"    -> <<"=">> \o Quoted(ViewName[w]) \o <<"@">> \o Quoted(ViewName[w])
    [] kind = "alias"      -> <<"t", " AS ">> \o Quoted(ViewName[w])
    [] kind = "table_alias" -> <<"t", " ">> \o Quoted(ViewName[w])
    [] kind = "call"       -> Written(w) \o <<"(", ")">>

\* The definition of view v as the server gives it.
Text(v) ==
  Written(v) \o <<" AS ">> \o FlattenSeq([w \in Views |->
    IF <<v, w>> \in uses THEN <<" ">> \o Written(w)
    ELSE IF <<v, w>> \in holds THEN <<" ">> \o Piece(foreign, w)
    ELSE <<>>])

\* A mutant: a backslash does not escape anything.
StepIgnoringBackslash(st, c) ==
  IF st.quote = "" THEN [st EXCEPT !.out = Append(@, c), !.quote = IF c \in {"'", "q"} THEN c ELSE ""]
  ELSE IF c = st.quote THEN [st EXCEPT !.out = Append(@, c), !.quote = ""]
  ELSE [st EXCEPT !.out = Append(@, IF st.quote = "'" THEN " " ELSE c)]

\* One character of the text: what is inside a literal becomes blank.
Step(st, c) ==
  CASE st.escaped -> [out |-> Append(st.out, " "), quote |-> st.quote, escaped |-> FALSE]
    [] ~st.escaped /\ st.quote = "" ->
         [st EXCEPT !.out = Append(@, c), !.quote = IF c \in {"'", "q"} THEN c ELSE ""]
    [] ~st.escaped /\ st.quote # "" /\ c = st.quote -> [st EXCEPT !.out = Append(@, c), !.quote = ""]
    [] OTHER -> [st EXCEPT !.out = Append(@, IF st.quote = "'" THEN " " ELSE c),
                           !.escaped = MySql /\ st.quote = "'" /\ c = "\\"]

\* The text with the contents of its literals blanked.
WithoutLiterals(ddl) ==
  LET scan[i \in 0..Len(ddl)] == IF i = 0 THEN [out |-> <<>>, quote |-> "", escaped |-> FALSE]
                                 ELSE Step(scan[i - 1], ddl[i])
  IN  scan[Len(ddl)].out

\* The ways in which view w may be written.
Needles(w) ==
  LET n == ViewName[w]
  IN  IF MySql
      THEN {Quoted(n), Dotted(Quoted(Schema), Quoted(n))}
      ELSE {Dotted(a, b) : a \in {Schema, Quoted(Schema)}, b \in {n, Quoted(n)}}

\* needle is found at i, and what stands around it does not make it another name,
\* the name of a column, an account or an alias.
ReferenceAt(ddl, i, needle) ==
  LET end == i + Len(needle) - 1
  IN  /\ SubSeq(ddl, i, end) = needle
      /\ i > 1 => ddl[i - 1] \notin Letters \cup {"q", ".", "=", "@", " AS "}
      /\ end < Len(ddl) => ddl[end + 1] \notin Letters \cup (IF MySql THEN {"q"} ELSE {})

References(ddl, w) ==
  \E needle \in Needles(w) :
    \E i \in 1..(Len(ddl) - Len(needle) + 1) : ReferenceAt(ddl, i, needle)

\* The dependencies that order_views reads from the texts.
ReadFrom(v) ==
  {e \in {v} \X Views : \E ddl \in {WithoutLiterals(definition[v])} : References(ddl, e[2])}

\* The views of a database do not use each other in a circle.
Acyclic(R) == \A S \in SUBSET Views : S # {} => \E v \in S : \A w \in S : <<v, w>> \notin R

TextInit ==
  /\ dialect \in {"mysql", "postgres"}
  /\ style \in Styles
  /\ foreign \in Foreign
  /\ uses \in {R \in SUBSET (Views \X Views) : Acyclic(R)}
  /\ holds \in SUBSET ({e \in Views \X Views : e[1] # e[2]} \ uses)
  /\ definition = [v \in Views |-> Text(v)]
  /\ mentions = UNION {ReadFrom(v) : v \in Views}
  /\ ViewInit

TextNext == ViewNext /\ UNCHANGED texts

TextSpec == TextInit /\ [][TextNext]_textVars /\ WF_textVars((EmitReady \/ EmitFirst) /\ UNCHANGED texts)

------------------------------------------------------------------------------
\* The texts that mislead: see Misleading; and in PostgreSQL a name that ends in
\* a double quote, which begins like the same name without it.
Misled ==
  \/ foreign \in Misleading /\ holds # {}
  \/ dialect = "postgres" /\ \E e \in uses \cup holds : ~Plain(ViewName[e[2]])

\* Reading dependencies from a text is good enough: every view comes after the
\* views that it uses, whatever else its text holds, literals with escapes,
\* accounts, columns and aliases of the same name included; only texts that
\* cannot be told from a use are excepted.
UsedViewsComeFirst ==
  [][\A v \in done' \ done : ~Misled => \A w \in Views : <<v, w>> \in uses => w \in done]_textVars
==============================================================================
