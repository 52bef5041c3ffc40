---------------------------- MODULE MarkdownText ----------------------------
(***************************************************************************)
(* The Markdown file of a schema (export/markdown.rs) and how it is read:   *)
(* by somebody who knows tables, lists, headings and code blocks of GitHub's *)
(* Markdown.  Values of the database stand in cells, in lines of lists and   *)
(* in code blocks; none may be taken for a sign of the document.            *)
(***************************************************************************)
EXTENDS Texts

\* Signs get a backslash, so does the parenthesis of a link; a line end, of one
\* sign or of two, becomes a tag.
WithBackslashes(s, signs) ==
    LET before(i) == IF i = 1 THEN "" ELSE s[i - 1]
    IN  FlattenSeq([i \in DOMAIN s |->
          CASE s[i] \in signs -> <<"\\", s[i]>>
            [] s[i] = "(" /\ before(i) = "]" -> <<"\\", "(">>
            [] s[i] = "NL" /\ before(i) = "CR" -> <<>>
            [] s[i] \in {"CR", "NL"} -> <<"<br>">>
            [] OTHER -> <<s[i]>>])

\* Mutant: a backslash of the value is left as it is.
CellBackslashFree(s) == WithBackslashes(s, {"|", "backtick", "*", "<"})

\* cell
Cell(s) ==
    IF {"\\", "|", "backtick", "*", "<", "CR", "NL", "]"} \cap Range(s) = {} THEN s
    ELSE WithBackslashes(s, {"\\", "|", "backtick", "*", "<"})

Row(cells) == <<"|">> \o FlattenSeq([k \in DOMAIN cells |-> Cell(cells[k]) \o <<"|">>])

\* A column without a default shows NULL, if that is what it gets.
DisplayDefault(c) ==
    IF c.default = NoDefault
    THEN IF c.nullable = <<"YES">> /\ ~c.computed THEN <<"NULL">> ELSE <<>>
    ELSE IF c.default = <<>> THEN <<"'", "'">> ELSE c.default

ColumnRow(c) ==
    Row(<<c.name, c.type, c.nullable, DisplayDefault(c), <<>>, <<>>, c.key, c.extra, c.comment>>)

\* kind_label.
KindLabel(x) ==
    IF x.method \in {<<"FULLTEXT">>, <<"SPATIAL">>, <<"EXCLUDE">>} THEN Head(x.method)
    ELSE IF x.unique THEN "Unique"
    ELSE IF x.method \in {<<"hash">>, <<"gin">>, <<"gist">>, <<"brin">>, <<"spgist">>} THEN Head(x.method)
    ELSE "Normal"

\* What is told of an index and of a foreign key (the MySQL client writes no blank
\* behind the commas of an index), and the lines that tell it.
IndexTexts(x) ==
    [label |-> <<KindLabel(x)>>, name |-> <<x.name>>, columns |-> Listed(x.columns),
     include |-> x.include, predicate |-> x.predicate]
KeyTexts(x) == [name |-> x.name, columns |-> Listed(x.columns), reference |-> x.reference]
InCells(texts) == [field \in DOMAIN texts |-> Cell(texts[field])]

IndexLine(texts) ==
    <<"- ", "[">> \o texts.label \o <<"]">> \o texts.name \o <<"(">> \o texts.columns \o <<")">>
      \o (IF texts.include = <<>> THEN <<>> ELSE <<" INCLUDE ", "(">> \o texts.include \o <<")">>)
      \o (IF texts.predicate = <<>> THEN <<>> ELSE <<" WHERE ">> \o texts.predicate)
KeyLine(texts) ==
    <<"- ">> \o texts.name \o <<" FOREIGN KEY ", "(">> \o texts.columns \o <<")", " Reference ">>
      \o texts.reference

\* Lines of a text; one that ends the text with a line end starts no other.
LinesOf(s) ==
    LET body == IF s # <<>> /\ Last(s) = "NL" THEN Front(s) ELSE s
    IN  IF "NL" \notin Range(body) THEN <<body>> ELSE PartsOf(body, At(body, "NL", 1, Len(body)))

\* longest_backtick_run.
LongestRun(s) ==
    LET run[i \in 0..Len(s)] == IF i > 0 /\ s[i] = "backtick" THEN run[i - 1] + 1 ELSE 0
    IN  Max({run[i] : i \in 0..Len(s)})

\* write_view_fenced_sql.
Fenced(sql) ==
    LET fence == [i \in 1..Max({3, LongestRun(sql) + 1}) |-> "backtick"]
    IN  <<<<>>, fence \o <<"sql">>>> \o LinesOf(sql) \o <<fence>>

\* A table of the file: its heading and what belongs to its kind.
Section(t) ==
    <<<<"## ">> \o t.name, <<"Information">>>>
      \o CASE t.kind = "table" ->
                <<Row(<<<<"TABLE">>, t.comment>>), <<>>>>
                  \o [k \in DOMAIN t.columns |-> ColumnRow(t.columns[k])] \o <<<<>>>>
                  \o [k \in DOMAIN t.indexes |-> IndexLine(InCells(IndexTexts(t.indexes[k])))] \o <<<<>>>>
                  \o [k \in DOMAIN t.keys |-> KeyLine(InCells(KeyTexts(t.keys[k])))] \o <<<<>>>>
           [] t.kind = "view" -> <<Row(<<<<"VIEW">>, t.charset>>), <<>>>> \o Fenced(t.text)
           [] OTHER -> <<>>
      \o <<<<" ">>>>

\* write_markdown.
Document(tables) ==
    <<<<"## ", "Table List">>>>
      \o [k \in DOMAIN tables |->
            <<"- ", "[">> \o tables[k].name \o <<" ", "(">> \o Cell(tables[k].comment) \o <<")", "]", "(", "#">>
              \o tables[k].name \o <<")">>]
      \o <<<<>>>> \o FlattenSeq([k \in DOMAIN tables |-> Section(tables[k])])

-----------------------------------------------------------------------------
\* How the file is read.  A value as a reader knows it: line ends are of one kind.
Plain(s) ==
    IF "CR" \notin Range(s) THEN s ELSE
    FlattenSeq([i \in DOMAIN s |->
                  IF s[i] = "NL" /\ i > 1 /\ s[i - 1] = "CR" THEN <<>>
                  ELSE IF s[i] = "CR" THEN <<"NL">> ELSE <<s[i]>>])

Plainly(texts) == [field \in DOMAIN texts |-> Plain(texts[field])]

\* The lines as they are in the file: a line end in one of them makes two.
FileLines(lines) == FlattenSeq([k \in DOMAIN lines |-> LinesOf(Plain(lines[k]))])

Backticks(line) == \A i \in DOMAIN line : line[i] = "backtick"

\* A line of backticks opens a fence or closes the one of n of them: the length of
\* the fence that is open behind it.
Behind(n, line) ==
    LET rest == SelectSeq(line, LAMBDA t : t # "backtick")
        ticks == Len(line) - Len(rest)
    IN  IF n = 0 THEN IF ticks >= 3 /\ Backticks(SubSeq(line, 1, ticks)) THEN ticks ELSE 0
        ELSE IF Backticks(Trim(line)) /\ Len(Trim(line)) >= n THEN 0 ELSE n

\* The fences that are open before each line and behind the last one.
Fences(lines) == FoldLeft(LAMBDA acc, line : Append(acc, Behind(Last(acc), line)), <<0>>, lines)

\* Sections: what is behind each heading, where a fence hides what looks like one.
Sections(lines) ==
    LET fence == Fences(lines)
        heads == {k \in DOMAIN lines : fence[k] = 0 /\ After(lines[k], "## ") # <<>>}
    IN  Tail(PartsOf(lines, heads))

\* The code block of a section.
Code(section) ==
    LET fence == Fences(section)
        inside == InOrder({k \in DOMAIN section : fence[k] > 0 /\ fence[k + 1] > 0}, Len(section))
    IN  [i \in DOMAIN inside |-> section[inside[i]]]

\* A line as it is shown: a backslash before a sign is gone, a tag is a line end;
\* anything that may be formatting is no text.
Signs == {"\\", "|", "backtick", "*", "<", "(", ")", "[", "]"}
Shown(s) ==
    LET escaping == Escaping(s)
    IN  IF (Signs \cup {"<br>", "_", "&"}) \cap Range(s) = {} THEN s
        ELSE FlattenSeq([i \in DOMAIN s |->
          CASE escaping[i] /\ i < Len(s) /\ s[i + 1] \in Signs -> <<>>
            [] escaping[i - 1] /\ s[i] \in Signs -> <<s[i]>>
            [] s[i] = "<br>" -> <<"NL">>
            [] \/ s[i] \in {"backtick", "*", "<", "_", "&"}
               \/ s[i] = "(" /\ i > 1 /\ s[i - 1] = "]" -> <<"formatting">>
            [] OTHER -> <<s[i]>>])

\* The cells of a row: a bar without a backslash separates them.
CellsOf(line) ==
    LET escaping == Escaping(line)
        parts == PartsOf(line, {i \in At(line, "|", 1, Len(line)) : ~escaping[i - 1]})
    IN  [k \in 1..(Len(parts) - 2) |-> Shown(Trim(parts[k + 1]))]

Rows(section) == SelectSeq(section, LAMBDA line : After(line, "|") # <<>>)
Entries(section) == SelectSeq(section, LAMBDA line : After(line, "- ") # <<>>)

\* Values whose formatting cell leaves: underscores, entities.
Styled(s) == {"_", "&"} \cap Range(s) # {}
=============================================================================
